---- MODULE Spec2Model ----
(***************************************************************************)
(* Conversation orchestration core of the WhatsApp healthcare bot:         *)
(* the profile store (MongoDB users collection), the onboarding state      *)
(* machine (OnboardingService + MedicalDataAgent) and the webhook router   *)
(* (process_whatsapp_message), with the asyncio interleaving that the      *)
(* code allows: a background task runs until its next awaited database or  *)
(* collaborator call, and other tasks run in between.                      *)
(***************************************************************************)
EXTENDS Integers, Sequences, FiniteSets, TLC

(***************************************************************************)
(* Text.  A Python str is a sequence of one-character strings.             *)
(***************************************************************************)
Digits == {"0", "1", "2", "3", "4", "5", "6", "7", "8", "9"}

DigitVal(c) ==
    CASE c = "0" -> 0 [] c = "1" -> 1 [] c = "2" -> 2 [] c = "3" -> 3
      [] c = "4" -> 4 [] c = "5" -> 5 [] c = "6" -> 6 [] c = "7" -> 7
      [] c = "8" -> 8 [] c = "9" -> 9

\* str.lower() on one character
LowerChar(c) ==
    CASE c = "A" -> "a" [] c = "B" -> "b" [] c = "C" -> "c" [] c = "D" -> "d"
      [] c = "E" -> "e" [] c = "F" -> "f" [] c = "G" -> "g" [] c = "H" -> "h"
      [] c = "I" -> "i" [] c = "J" -> "j" [] c = "K" -> "k" [] c = "L" -> "l"
      [] c = "M" -> "m" [] c = "N" -> "n" [] c = "O" -> "o" [] c = "P" -> "p"
      [] c = "Q" -> "q" [] c = "R" -> "r" [] c = "S" -> "s" [] c = "T" -> "t"
      [] c = "U" -> "u" [] c = "V" -> "v" [] c = "W" -> "w" [] c = "X" -> "x"
      [] c = "Y" -> "y" [] c = "Z" -> "z"
      [] OTHER -> c

Lower(s) == [i \in 1..Len(s) |-> LowerChar(s[i])]

RECURSIVE LStrip(_)
LStrip(s) == IF Len(s) > 0 /\ Head(s) = " " THEN LStrip(Tail(s)) ELSE s

RECURSIVE RStrip(_)
RStrip(s) ==
    IF Len(s) > 0 /\ s[Len(s)] = " " THEN RStrip(SubSeq(s, 1, Len(s) - 1)) ELSE s

\* str.strip()
Strip(s) == RStrip(LStrip(s))

\* str.split(","): the items between commas, empty items kept
RECURSIVE SplitComma(_, _, _)
SplitComma(s, cur, acc) ==
    IF Len(s) = 0 THEN Append(acc, cur)
    ELSE IF Head(s) = "," THEN SplitComma(Tail(s), <<>>, Append(acc, cur))
    ELSE SplitComma(Tail(s), Append(cur, Head(s)), acc)

Split(s) == SplitComma(s, <<>>, <<>>)

RECURSIVE DigitsVal(_, _)
DigitsVal(s, acc) ==
    IF Len(s) = 0 THEN acc ELSE DigitsVal(Tail(s), 10 * acc + DigitVal(Head(s)))

\* int(str): surrounding whitespace and one sign are accepted; anything
\* else raises ValueError (ok = FALSE)
ParseInt(s) ==
    LET t == Strip(s)
        signed == Len(t) > 0 /\ Head(t) \in {"+", "-"}
        d == IF signed THEN Tail(t) ELSE t
    IN  IF Len(d) > 0 /\ \A i \in 1..Len(d) : d[i] \in Digits
        THEN [ok |-> TRUE,
              val |-> IF signed /\ Head(t) = "-" THEN 0 - DigitsVal(d, 0)
                      ELSE DigitsVal(d, 0)]
        ELSE [ok |-> FALSE, val |-> 0]

\* the string literals of the onboarding validators and of the router
Str ==
    [male |-> <<"m", "a", "l", "e">>,
     female |-> <<"f", "e", "m", "a", "l", "e">>,
     other |-> <<"o", "t", "h", "e", "r">>,
     english |-> <<"e", "n", "g", "l", "i", "s", "h">>,
     ayurvedic |-> <<"a", "y", "u", "r", "v", "e", "d", "i", "c">>,
     home_remedies |-> <<"h", "o", "m", "e", "_", "r", "e", "m", "e", "d", "i", "e", "s">>,
     none |-> <<"n", "o", "n", "e">>,
     five |-> <<"5">>,
     image_slash |-> <<"i", "m", "a", "g", "e", "/">>]

(***************************************************************************)
(* The onboarding questions.                                               *)
(***************************************************************************)
Questions ==
    << [field_name |-> "name", required |-> TRUE],
       [field_name |-> "age", required |-> TRUE],
       [field_name |-> "gender", required |-> TRUE],
       [field_name |-> "district", required |-> TRUE],
       [field_name |-> "state", required |-> TRUE],
       [field_name |-> "medication_preference", required |-> TRUE],
       [field_name |-> "allergies", required |-> FALSE],
       [field_name |-> "existing_conditions", required |-> FALSE],
       [field_name |-> "current_medications", required |-> FALSE] >>

NumQuestions == Len(Questions)

FieldOrder == [i \in 1..NumQuestions |-> Questions[i].field_name]

ListFields == {"allergies", "existing_conditions", "current_medications"}

\* a validator that accepts every answer that is not blank
validate_response_nonblank(question, raw) == Len(Strip(raw)) > 0

\* OnboardingService._validate_response: TRUE iff {"valid": True}
validate_response(question, raw) ==
    LET response == Strip(raw)
        v == question.field_name
    IN  IF question.required /\ Len(response) = 0 THEN FALSE
        ELSE CASE v = "name" ->
                    /\ Len(response) >= 2
                    /\ \A i \in 1..Len(response) : response[i] \notin Digits
               [] v = "age" ->
                    LET p == ParseInt(response)
                    IN  p.ok /\ p.val >= 1 /\ p.val <= 120
               [] v = "gender" -> Lower(response) \in {Str.male, Str.female, Str.other}
               [] v = "medication_preference" -> Lower(response) \in {Str.english, Str.ayurvedic, Str.home_remedies}
               [] v \in {"district", "state"} -> Len(response) >= 2
               [] v \in ListFields ->
                    \/ Lower(response) = Str.none
                    \/ LET items == Split(response)
                       IN  \A i \in 1..Len(items) :
                              LET item == Strip(items[i])
                              IN  Len(item) > 0 => Len(item) >= 2

\* MedicalDataAgent.process_onboarding_response, lines 236-280: the update
\* built from the raw answer; ok = FALSE is the early "return False"
update_data(field_name, response) ==
    CASE field_name \in {"name", "district", "state"} ->
            [ok |-> TRUE, val |-> <<Strip(response)>>]
      [] field_name = "age" ->
            LET p == ParseInt(Strip(response))
            IN  IF p.ok /\ 1 <= p.val /\ p.val <= 120
                THEN [ok |-> TRUE, val |-> <<p.val>>]
                ELSE [ok |-> FALSE, val |-> <<>>]
      [] field_name = "gender" ->
            IF Lower(response) \in {Str.male, Str.female, Str.other}
            THEN [ok |-> TRUE, val |-> <<Lower(response)>>]
            ELSE [ok |-> FALSE, val |-> <<>>]
      [] field_name = "medication_preference" ->
            IF Lower(response) \in {Str.english, Str.ayurvedic, Str.home_remedies}
            THEN [ok |-> TRUE, val |-> <<Lower(response)>>]
            ELSE [ok |-> FALSE, val |-> <<>>]
      [] field_name \in ListFields ->
            IF Lower(response) # Str.none
            THEN [ok |-> TRUE,
                  val |-> LET items == Split(response)
                          IN  [i \in 1..Len(items) |-> Strip(items[i])]]
            ELSE [ok |-> TRUE, val |-> <<>>]

(***************************************************************************)
(* Bounds and inputs.                                                      *)
(***************************************************************************)
\* background tasks that may be in flight at the same time
MaxTasks == 2

\* events that may arrive while another event is still being processed
MaxOverlaps == 2

\* chat records that may be stored before deliveries stop
MaxChats == 1

\* answers that two identities together may have had accepted while
\* deliveries to the pair go on
MaxAnswers == 6

\* session tokens that may be minted
MaxTokens == 3

\* ticks of the clock
MaxClock == 3

\* identities, in a fixed order
UserList == <<"u1", "u2">>

Users == {UserList[k] : k \in 1..Len(UserList)}

\* the identity whose events are delivered where events may overlap
Senders == {UserList[1]}

\* message bodies of inbound events
Bodies == {Str.five, Str.male, Str.english}

\* MediaContentType0 of an event; "none" is an event without MediaUrl0
MediaTypes == {"none", "image/png", "application/pdf", "audio/ogg"}

DocumentTypes ==
    {"application/pdf", "application/msword",
     "application/vnd.openxmlformats-officedocument.wordprocessingml.document"}

Slots == 1..MaxTasks

\* session dictionaries: one per identity plus one per task that still
\* holds a reference to a dictionary that was replaced or deleted
ObjIds == 1..(Cardinality(Users) + MaxTasks)

VARIABLES
    users,              \* users collection: identity -> documents, oldest first
    onboarding_states,  \* OnboardingService.onboarding_states: identity -> dictionary id, 0 = no key
    heap,               \* the session dictionaries: id -> [step, completed_fields]
    tasks,              \* background tasks and service calls in flight
    sent,               \* the message that the last step sent, if any
    seq,                \* history: the identity's events never overlapped
    consumed,           \* history: fields of the answers accepted while seq
    finalAnswer,        \* history: body of the event that completed the profile
    overlaps,           \* history: events that arrived while another was in flight
    ended,              \* the identity whose event finished in the last step, if any
    twilio_up,          \* the messaging API accepts messages
    active_sessions,    \* QueryProcessor.active_sessions: identity -> [session_id, last_activity]
    chat_records,       \* chat history: identity -> session ids of the stored records
    now,                \* datetime.utcnow()
    minted,             \* uuid4 values drawn so far
    looked,             \* the last session lookup: identity, token, previous token and its idle time
    erased,             \* the last call of the erase endpoint: identity, outcome, serial bit
    advice,             \* the reply text handed to the safety validator
    profile,            \* the profile handed to the safety validator
    verdict,            \* the SafetyCheck returned for advice and profile, if validated
    earlier,            \* an earlier call of the validator: its arguments and its verdict
    disclaimed,         \* what add_medical_disclaimer returned for advice, if called
    question,           \* index of the onboarding question an answer is given to
    answer,             \* the answer, as the sender typed it
    valid,              \* what _validate_response returned for the answer, if called
    saved,              \* the update the agent built from the answer, if called
    services,           \* the five required service globals of api/main.py are set
    ack,                \* the HTTP response to the last delivery: status and body
    job,                \* the background task of the last delivery and its pending call
    replied             \* what the finished background task handed to send_message

\* the session registry and the chat history
regs == <<active_sessions, chat_records, now, minted, looked>>

\* the profile store, the onboarding service and the router
core == <<users, onboarding_states, heap, tasks, sent, seq, consumed,
          finalAnswer, overlaps, ended, twilio_up>>

\* the erase endpoint, the safety validator and its caller
\* one answer to one onboarding question
asked == <<question, answer, valid, saved>>

\* one answer to one onboarding question; the webhook and its background task
aux == <<asked, services, ack, job, replied>>

ext == <<erased, advice, profile, verdict, earlier, disclaimed, aux>>

vars == <<core, regs, ext>>

(***************************************************************************)
(* Session registry and chat history.                                      *)
(***************************************************************************)
\* no key in active_sessions
NoSession == [session_id |-> 0, last_activity |-> 0]

NotLooked == [to |-> "", token |-> 0, prev |-> 0, idle |-> 0]

\* QueryProcessor._get_or_create_session: the registry after the call
get_or_create_session(u) ==
    IF active_sessions[u].session_id = 0
    THEN [active_sessions EXCEPT ![u] = [session_id |-> minted + 1, last_activity |-> now]]
    ELSE [active_sessions EXCEPT ![u].last_activity = now]

\* the session lookup of identity u and what it found
Lookup(u) ==
    /\ active_sessions' = get_or_create_session(u)
    /\ minted' = IF active_sessions[u].session_id = 0 THEN minted + 1 ELSE minted
    /\ looked' = [to |-> u, token |-> active_sessions'[u].session_id,
                  prev |-> active_sessions[u].session_id,
                  idle |-> IF active_sessions[u].session_id = 0 THEN 0
                           ELSE now - active_sessions[u].last_activity]
    /\ now' = now

\* chat_repo.save_message of a ChatMessage built with the looked-up session
SaveChat(u) ==
    /\ Lookup(u)
    /\ chat_records' = [chat_records EXCEPT ![u] = Append(@, active_sessions'[u].session_id)]

\* QueryProcessor._get_or_create_session(user_id) called on its own
SessionLookup ==
    \E u \in Users :
        /\ active_sessions[u].session_id = 0 => minted < MaxTokens
        /\ Lookup(u)
        /\ UNCHANGED <<core, chat_records, ext>>

\* QueryProcessor.clear_user_session(user_id)
ClearSession ==
    \E u \in Users :
        /\ active_sessions' = [active_sessions EXCEPT ![u] = NoSession]
        /\ looked' = NotLooked
        /\ UNCHANGED <<core, chat_records, now, minted, ext>>

\* time passes
Tick ==
    /\ now < MaxClock
    /\ now' = now + 1
    /\ looked' = NotLooked
    /\ UNCHANGED <<core, active_sessions, chat_records, minted, ext>>

(***************************************************************************)
(* Profile store.                                                          *)
(***************************************************************************)
RequiredFields == {"name", "age", "gender", "district", "state", "medication_preference"}

\* UserProfile(user_id=...): optional fields None (<<>>), lists empty
UserProfile ==
    [name |-> <<>>, age |-> <<>>, gender |-> <<>>, district |-> <<>>,
     state |-> <<>>, medication_preference |-> <<>>, allergies |-> <<>>,
     existing_conditions |-> <<>>, current_medications |-> <<>>,
     is_profile_complete |-> FALSE]

\* UserProfile.check_profile_completeness
check_profile_completeness(p) == \A f \in RequiredFields : Len(p[f]) > 0

\* find_one({"user_id": u}) returns the oldest matching document
Exists(u) == Len(users[u]) > 0
get_user_by_id(u) == users[u][1]

\* profile fetched and flagged complete
IsComplete(u) == Exists(u) /\ get_user_by_id(u).is_profile_complete

\* update_one({"user_id": u}, {"$set": {f: v}}): the oldest matching document
update_user(u, f, v) ==
    IF Exists(u)
    THEN [users EXCEPT ![u] = [@ EXCEPT ![1] = [@ EXCEPT ![f] = v]]]
    ELSE users

\* insert_one: the collection has no unique index on user_id
create_user(u) == [users EXCEPT ![u] = Append(@, UserProfile)]

(***************************************************************************)
(* Tasks.                                                                  *)
(***************************************************************************)
NoReply == [kind |-> "none", q |-> 0]

NothingSent ==
    [to |-> "", kind |-> "none", q |-> 0, dup |-> FALSE, media |-> "none", gate |-> FALSE,
     delivered |-> FALSE, checked |-> FALSE]

\* process_whatsapp_message, line 871: if response and response.message,
\* then send_message(to_number, message) for the event of task t: the text
\* is what the router built (nothing is called between building response
\* and sending it), the API call succeeds or its error is logged and False
\* returned
Outbound(t, reply) ==
    IF reply.kind = "empty" THEN NothingSent
    ELSE [to |-> t.user, kind |-> reply.kind, q |-> reply.q, dup |-> t.dup,
          media |-> t.media, gate |-> t.gate, delivered |-> twilio_up, checked |-> FALSE]

\* a reply: its kind and the index of the question it prompts for
Reply(kind, q) == [kind |-> kind, q |-> q]

Idle ==
    [pc |-> "idle", user |-> "", body |-> <<>>, media |-> "none", entry |-> "",
     ref |-> 0, cur |-> 0, handler |-> "", dup |-> FALSE, validated |-> FALSE,
     completing |-> FALSE, gate |-> FALSE]

NewTask(u, body, media, entry, pc, dup) ==
    [Idle EXCEPT !.pc = pc, !.user = u, !.body = body, !.media = media,
                 !.entry = entry, !.dup = dup]

InFlight(i) == tasks[i].pc # "idle"

FreeSlot == CHOOSE i \in Slots : ~InFlight(i) /\ \A j \in Slots : ~InFlight(j) => i <= j

FreeObj(u) ==
    \* dict(): an object that nothing refers to
    CHOOSE o \in ObjIds :
        /\ \A v \in Users : onboarding_states[v] # o
        /\ \A j \in Slots : tasks[j].ref # o

Free == [step |-> 0, completed_fields |-> <<>>]

\* The state is kept in a normal form that the program cannot tell apart
\* from the original: tasks in flight sit in the lowest slots in arrival
\* order, the dictionary of the k-th identity has id k, a dictionary that
\* only tasks refer to has an id given by the first such task, and
\* dictionaries that nothing refers to are garbage.
Compact(ts) ==
    LET live == SelectSeq(ts, LAMBDA t : t.pc # "idle")
    IN  [i \in Slots |-> IF i <= Len(live) THEN live[i] ELSE Idle]

NewId(o, os, ts) ==
    IF o = 0 THEN 0
    ELSE IF \E k \in 1..Len(UserList) : os[UserList[k]] = o
         THEN CHOOSE k \in 1..Len(UserList) : os[UserList[k]] = o
         ELSE Len(UserList)
              + (CHOOSE j \in Slots : ts[j].ref = o /\ \A l \in Slots : ts[l].ref = o => j <= l)

NormTasks(os, ts) ==
    LET c == Compact(ts)
    IN  [i \in Slots |-> [c[i] EXCEPT !.ref = NewId(@, os, c)]]

NormStates(os, ts) == [u \in Users |-> NewId(os[u], os, Compact(ts))]

NormHeap(h, os, ts) ==
    LET c == Compact(ts)
        refs == ({os[u] : u \in Users} \cup {c[j].ref : j \in Slots}) \ {0}
    IN  [n \in ObjIds |->
            IF \E o \in refs : NewId(o, os, c) = n
            THEN h[CHOOSE o \in refs : NewId(o, os, c) = n]
            ELSE Free]

(***************************************************************************)
(* What a task does between two awaits: either it goes on to its next      *)
(* await (done = FALSE) or it returns its reply, which the router sends    *)
(* without yielding (TwilioService.send_message never awaits).             *)
(***************************************************************************)
Go(t, pc) ==
    [done |-> FALSE, task |-> [t EXCEPT !.pc = pc], reply |-> NoReply,
     os |-> onboarding_states, h |-> heap, cons |-> consumed]

Return(t, reply) ==
    [done |-> TRUE, task |-> t, reply |-> reply,
     os |-> onboarding_states, h |-> heap, cons |-> consumed]

\* a start_onboarding that keeps one dictionary for all identities
StartSession_shared(t) ==
    LET u == t.user
        o == FreeObj(u)
    IN  [done |-> TRUE, task |-> t, reply |-> Reply("welcome", 0),
         os |-> [v \in Users |-> o],
         h |-> [heap EXCEPT ![o] = [step |-> 0, completed_fields |-> <<>>]],
         cons |-> consumed]

\* OnboardingService.start_onboarding, lines 37-56: a fresh dictionary at
\* step 0 replaces whatever the identity had, reply welcome + question
StartSession(t) ==
    LET u == t.user
        o == FreeObj(u)
    IN  [done |-> TRUE, task |-> t, reply |-> Reply("welcome", 0),
         os |-> [onboarding_states EXCEPT ![u] = o],
         h |-> [heap EXCEPT ![o] = [step |-> 0, completed_fields |-> <<>>]],
         cons |-> consumed]

\* a process_onboarding_response that moves on after a rejected answer
ProcessEntry_advancing(t) ==
    LET u == t.user IN
    IF onboarding_states[u] = 0 THEN Go(t, "por_get")
    ELSE LET o == onboarding_states[u]
             current_step == heap[o].step
             t1 == [t EXCEPT !.ref = o, !.cur = current_step, !.validated = TRUE]
         IN  IF current_step >= NumQuestions THEN Go(t1, "co_update")
             ELSE IF ~validate_response(Questions[current_step + 1], t.body)
                  THEN [Return(t1, Reply("invalid", current_step))
                          EXCEPT !.h = [heap EXCEPT ![o].step = @ + 1]]
                  ELSE Go(t1, "mda_get")

\* OnboardingService.process_onboarding_response, lines 69-100, up to the
\* first await
ProcessEntry(t) ==
    LET u == t.user IN
    IF onboarding_states[u] = 0 THEN Go(t, "por_get")
    ELSE LET o == onboarding_states[u]
             current_step == heap[o].step
             t1 == [t EXCEPT !.ref = o, !.cur = current_step]
         IN  IF current_step >= NumQuestions THEN Go(t1, "co_update")
             ELSE IF ~validate_response(Questions[current_step + 1], t.body)
                  THEN Return([t1 EXCEPT !.validated = TRUE],
                              Reply("invalid", current_step))
                  ELSE Go([t1 EXCEPT !.validated = TRUE], "mda_get")

\* MedicalDataAgent.process_onboarding_response, lines 236-283
BuildUpdate(t) ==
    IF update_data(FieldOrder[t.cur + 1], t.body).ok
    THEN Go(t, "mda_update")
    ELSE Return(t, Reply("save_error", t.cur))

\* OnboardingService.process_onboarding_response, lines 104-121, after the
\* agent has returned: the task's dictionary advances, the next prompt is
\* read from the dictionary that onboarding_states holds
AfterSave(t, success) ==
    IF ~success THEN Return(t, Reply("save_error", t.cur))
    ELSE LET u == t.user
             field == FieldOrder[t.cur + 1]
             h2 == [heap EXCEPT ![t.ref] =
                      [step |-> @.step + 1,
                       completed_fields |-> Append(@.completed_fields, field)]]
             c2 == IF seq[u] /\ t.entry = "router"
                   THEN [consumed EXCEPT ![u] = Append(@, field)]
                   ELSE consumed
         IN  IF h2[t.ref].step >= NumQuestions
             THEN [done |-> FALSE, task |-> [t EXCEPT !.pc = "co_update"],
                   reply |-> NoReply, os |-> onboarding_states, h |-> h2, cons |-> c2]
             ELSE [done |-> TRUE, task |-> t,
                   reply |-> Reply("ack", (IF onboarding_states[u] = 0 THEN 0 ELSE h2[onboarding_states[u]].step)),
                   os |-> onboarding_states, h |-> h2, cons |-> c2]

\* a router that only asks whether a profile exists
NeedsOnboarding_exists(u) == ~Exists(u)

\* the routing test of process_whatsapp_message, line 816
NeedsOnboarding(u) == ~IsComplete(u)

\* the characters of a content type
ContentTypeChars(ctype) ==
    CASE ctype = "image/png" ->
        <<"i", "m", "a", "g", "e", "/", "p", "n", "g">>
      [] ctype = "application/pdf" ->
        <<"a", "p", "p", "l", "i", "c", "a", "t", "i", "o", "n", "/", "p", "d", "f">>
      [] ctype = "audio/ogg" ->
        <<"a", "u", "d", "i", "o", "/", "o", "g", "g">>
      [] ctype = "application/msword" ->
        <<"a", "p", "p", "l", "i", "c", "a", "t", "i", "o", "n", "/", "m", "s", "w", "o", "r",
          "d">>
      [] ctype = "application/vnd.openxmlformats-officedocument.wordprocessingml.document" ->
        <<"a", "p", "p", "l", "i", "c", "a", "t", "i", "o", "n", "/", "v", "n", "d", ".", "o",
          "p", "e", "n", "x", "m", "l", "f", "o", "r", "m", "a", "t", "s", "-", "o", "f", "f",
          "i", "c", "e", "d", "o", "c", "u", "m", "e", "n", "t", ".", "w", "o", "r", "d", "p",
          "r", "o", "c", "e", "s", "s", "i", "n", "g", "m", "l", ".", "d", "o", "c", "u", "m",
          "e", "n", "t">>
      [] OTHER -> <<>>

\* str.startswith
StartsWith(s, prefix) ==
    Len(s) >= Len(prefix) /\ SubSeq(s, 1, Len(prefix)) = prefix

\* process_whatsapp_message, lines 836-868: dispatch of a complete profile
\* (ctype.startswith("image/") on the lower-cased content type)
Dispatch(t) ==
    IF t.media = "none" THEN Go([t EXCEPT !.handler = "text"], "handler")
    ELSE IF StartsWith(Lower(ContentTypeChars(t.media)), Str.image_slash)
         THEN Go([t EXCEPT !.handler = "image"], "handler")
    ELSE IF t.media \in DocumentTypes
         THEN Go([t EXCEPT !.handler = "document"], "handler")
    ELSE Return(t, Reply("unsupported", 0))

\* process_whatsapp_message, lines 814-834, after the profile fetch;
\* gate records what the fetched profile said
Route(t0) ==
    LET t == [t0 EXCEPT !.gate = IsComplete(t0.user)] IN
    IF NeedsOnboarding(t.user)
    THEN IF t.media # "none" THEN Return(t, Reply("finish_profile", 0))
         ELSE IF ~Exists(t.user) THEN Go(t, "so_get")
         ELSE ProcessEntry(t)
    ELSE Dispatch(t)

\* one atomic step of task i: the new profile store and the outcome
ApplyCore(i, us, out) ==
    LET t == out.task
        u == t.user
        ts == [tasks EXCEPT ![i] = IF out.done THEN Idle ELSE t]
    IN  /\ users' = us
        /\ onboarding_states' = NormStates(out.os, ts)
        /\ tasks' = NormTasks(out.os, ts)
        /\ heap' = NormHeap(out.h, out.os, ts)
        /\ consumed' = out.cons
        /\ sent' = IF out.done THEN Outbound(t, out.reply) ELSE NothingSent
        /\ ended' = IF out.done THEN u ELSE ""
        /\ twilio_up' = twilio_up
        /\ finalAnswer' =
             IF out.done /\ (t.completing \/ out.reply.kind = "completion")
             THEN [finalAnswer EXCEPT ![u] = <<t.body>>]
             ELSE finalAnswer
        /\ seq' = seq
        /\ overlaps' = overlaps
        /\ UNCHANGED ext

\* a step that does not touch the session registry or the chat history
Apply(i, us, out) ==
    /\ ApplyCore(i, us, out)
    /\ UNCHANGED regs

(***************************************************************************)
(* Arrival of events (webhook: background_tasks.add_task).                 *)
(***************************************************************************)
\* whatsapp_webhook queues process_whatsapp_message as a background task;
\* the task has no effect before its profile fetch (line 814), so the
\* arrival is taken at the fetch, followed by the routing up to the task's
\* next await
Busy == \E j \in Slots : InFlight(j)

\* a new task runs up to its first await with outcome out
Launch(out) ==
    LET ts == [tasks EXCEPT ![FreeSlot] = IF out.done THEN Idle ELSE out.task]
    IN  /\ tasks' = NormTasks(out.os, ts)
        /\ onboarding_states' = NormStates(out.os, ts)
        /\ heap' = NormHeap(out.h, out.os, ts)
        /\ sent' = IF out.done THEN Outbound(out.task, out.reply) ELSE NothingSent
        /\ ended' = IF out.done THEN out.task.user ELSE ""
        /\ UNCHANGED <<twilio_up, regs, ext>>

\* a slot for one more background task
CanAccept == \E i \in Slots : ~InFlight(i)

Enqueue(u, out) ==
    /\ Busy => overlaps < MaxOverlaps
    /\ overlaps' = IF Busy THEN overlaps + 1 ELSE overlaps
    /\ seq' = [seq EXCEPT ![u] = @ /\ \A j \in Slots : tasks[j].user # u]
    /\ consumed' = [out.cons EXCEPT ![u] = IF seq'[u] THEN @ ELSE <<>>]
    /\ Launch(out)
    /\ UNCHANGED <<users, finalAnswer>>

\* an inbound event: a text body, or an attachment with a caption
Events == (Bodies \X {"none"}) \cup ({Str.five} \X (MediaTypes \ {"none"}))

Deliver ==
    \E u \in Senders, e \in Events :
        /\ CanAccept
        /\ Enqueue(u, Route(NewTask(u, e[1], e[2], "router", "fetch", FALSE)))

\* the transport delivers the event that completed the profile once more
Redeliver ==
    \E u \in Senders :
        /\ CanAccept
        /\ Len(finalAnswer[u]) > 0
        /\ Enqueue(u, Route(NewTask(u, finalAnswer[u][1], "none", "router", "fetch", TRUE)))

(***************************************************************************)
(* Steps of a task: the effect of one awaited call together with the       *)
(* task's code up to its next awaited call.                                *)
(***************************************************************************)
\* start_onboarding, line 27: get_user_by_id
StartGet(i) ==
    LET t == tasks[i] IN
    /\ t.pc = "so_get"
    /\ Apply(i, users,
             IF IsComplete(t.user) THEN Return(t, Reply("welcome_back", 0))
             ELSE IF ~Exists(t.user) THEN Go(t, "so_create")
             ELSE StartSession(t))

\* start_onboarding, line 35: create_user inserts the document
StartCreate(i) ==
    LET t == tasks[i] IN
    /\ t.pc = "so_create"
    /\ Apply(i, create_user(t.user), Go(t, "so_init"))

\* start_onboarding, lines 37-56: the task resumes after the insert
StartInit(i) ==
    LET t == tasks[i] IN
    /\ t.pc = "so_init"
    /\ Apply(i, users, StartSession(t))

\* a process_onboarding_response that restarts onboarding whenever there
\* is no session
ProcessGet_restarting(i) ==
    LET t == tasks[i] IN
    /\ t.pc = "por_get"
    /\ Apply(i, users, StartSession(t))

\* process_onboarding_response, line 71: no session, look at the profile
ProcessGet(i) ==
    LET t == tasks[i] IN
    /\ t.pc = "por_get"
    /\ Apply(i, users,
             IF IsComplete(t.user) THEN Return(t, Reply("already_complete", 0))
             ELSE Go(t, "so_get"))

\* MedicalDataAgent.process_onboarding_response, lines 230-233:
\* get_user_by_id, and create_user when there is no profile (no operation
\* removes a profile, so a task that got here always finds one)
AgentGet(i) ==
    LET t == tasks[i] IN
    /\ t.pc = "mda_get"
    /\ Apply(i, IF Exists(t.user) THEN users ELSE create_user(t.user), BuildUpdate(t))

\* MedicalDataAgent.process_onboarding_response, line 283: update_user; it
\* reports success when a document matched (updated_at always changes)
AgentUpdate(i) ==
    LET t == tasks[i]
        field == FieldOrder[t.cur + 1]
    IN  /\ t.pc = "mda_update"
        /\ Apply(i, update_user(t.user, field, update_data(field, t.body).val),
                 IF Exists(t.user) THEN Go(t, "chk_get") ELSE AfterSave(t, FALSE))

\* _check_and_update_profile_completion, line 298: get_user_by_id
CheckGet(i) ==
    LET t == tasks[i] IN
    /\ t.pc = "chk_get"
    /\ Apply(i, users,
             IF Exists(t.user) /\ check_profile_completeness(get_user_by_id(t.user))
             THEN Go(t, "chk_update")
             ELSE AfterSave(t, TRUE))

\* the task's write of is_profile_complete = True turns the flag on
Completes(t) == Exists(t.user) /\ ~get_user_by_id(t.user).is_profile_complete

\* _check_and_update_profile_completion, line 300: update_user
CheckUpdate(i) ==
    LET t == tasks[i]
        t1 == [t EXCEPT !.completing = @ \/ Completes(t)]
    IN  /\ t.pc = "chk_update"
        /\ Apply(i, update_user(t.user, "is_profile_complete", TRUE), AfterSave(t1, TRUE))

\* _complete_onboarding, lines 281-285: update_user, then the session key
\* is deleted
CompleteUpdate(i) ==
    LET t == tasks[i]
        t1 == [t EXCEPT !.completing = @ \/ Completes(t), !.pc = "co_get"]
    IN  /\ t.pc = "co_update"
        /\ Apply(i, update_user(t.user, "is_profile_complete", TRUE),
                 [done |-> FALSE, task |-> t1, reply |-> NoReply,
                  os |-> [onboarding_states EXCEPT ![t.user] = 0],
                  h |-> heap, cons |-> consumed])

\* _complete_onboarding, lines 288-310: get_user_by_id, completion message
CompleteGet(i) ==
    LET t == tasks[i]
    IN  /\ t.pc = "co_get"
        /\ Apply(i, users, Return(t, Reply("completion", 0)))

\* process_basic_health_query / process_image_analysis /
\* process_document_ingestion: the handler's collaborators have answered;
\* the text of translate_from_english is stripped and may be empty
HandlerDone(i) ==
    LET t == tasks[i] IN
    /\ t.pc = "handler"
    /\ \E kind \in (IF t.handler = "text" THEN {"text", "empty"} ELSE {t.handler}) :
          /\ ApplyCore(i, users, Return(t, Reply(kind, 0)))
          /\ IF t.entry = "qp" THEN SaveChat(t.user) ELSE UNCHANGED regs

(***************************************************************************)
(* The service called directly, one call after the other.                  *)
(***************************************************************************)
Call(out) ==
    /\ Launch(out)
    /\ UNCHANGED <<users, seq, consumed, finalAnswer, overlaps>>

\* OnboardingService.start_onboarding(user_id, phone_number)
CallStart ==
    \E u \in Senders :
        /\ ~Busy
        /\ Call(Go(NewTask(u, <<>>, "none", "service", "so_get", FALSE), "so_get"))

\* OnboardingService.process_onboarding_response(user_id, response)
CallProcess ==
    \E u \in Senders, body \in Bodies :
        /\ ~Busy
        /\ Call(ProcessEntry(NewTask(u, body, "none", "service", "por", FALSE)))

\* OnboardingService.reset_onboarding, lines 350-354: the session key is
\* deleted, then update_user is awaited
CallReset ==
    \E u \in Senders :
        /\ ~Busy
        /\ Call([Go(NewTask(u, <<>>, "none", "service", "rs_update", FALSE), "rs_update")
                   EXCEPT !.os = [onboarding_states EXCEPT ![u] = 0]])

\* reset_onboarding, lines 354-358: is_profile_complete = False, then
\* start_onboarding
ResetUpdate(i) ==
    LET t == tasks[i] IN
    /\ t.pc = "rs_update"
    /\ Apply(i, update_user(t.user, "is_profile_complete", FALSE), Go(t, "so_get"))

(***************************************************************************)
(* QueryProcessor.process_whatsapp_message, the pipeline of                *)
(* services/query_processor.py (identities are "user_<digits>").          *)
(***************************************************************************)
\* QueryProcessor._determine_message_type and _handle_healthcare_query
DispatchQP(t) ==
    IF t.media # "none" /\ StartsWith(Lower(ContentTypeChars(t.media)), Str.image_slash)
    THEN Go([t EXCEPT !.handler = "image"], "handler")
    ELSE IF t.media # "none" /\ t.media \in DocumentTypes
         THEN Go([t EXCEPT !.handler = "document"], "handler")
    ELSE Go([t EXCEPT !.handler = "text"], "handler")

\* QueryProcessor.process_whatsapp_message, lines 41-48, and
\* _handle_onboarding, lines 58-66, after check_profile_completion
RouteQP(t0) ==
    LET t == [t0 EXCEPT !.gate = IsComplete(t0.user)] IN
    IF ~IsComplete(t.user)
    THEN IF onboarding_states[t.user] = 0 THEN Go(t, "qp_progress")
         ELSE ProcessEntry(t)
    ELSE DispatchQP(t)

DeliverQP ==
    \E u \in Senders, e \in Events :
        /\ CanAccept
        /\ Cardinality(UNION {{<<v, k>> : k \in 1..Len(chat_records[v])} : v \in Users}) < MaxChats
        /\ Enqueue(u, RouteQP(NewTask(u, e[1], e[2], "qp", "qp_check", FALSE)))

\* get_onboarding_progress, line 329: check_profile_completion is awaited,
\* in_progress is False, so _handle_onboarding starts onboarding
ProgressGet(i) ==
    LET t == tasks[i] IN
    /\ t.pc = "qp_progress"
    /\ Apply(i, users, Go(t, "so_get"))

(***************************************************************************)
(* Faults of the collaborators: an awaited call raises, the messaging API  *)
(* rejects a message.  Events are delivered one after the other.           *)
(***************************************************************************)
\* what the try/except around the awaited call of task t makes of a fault
\* (the call that raised has had no effect)
OnFault(t) ==
    CASE t.pc \in {"so_get", "so_create"} -> Return(t, Reply("start_error", 0))
      [] t.pc = "por_get" -> Return(t, Reply("process_error", 0))
      [] t.pc \in {"mda_get", "mda_update"} -> AfterSave(t, FALSE)
      [] t.pc \in {"chk_get", "chk_update"} -> AfterSave(t, TRUE)
      [] t.pc \in {"co_update", "co_get"} -> Return(t, Reply("setup_complete", 0))
      [] t.pc = "rs_update" -> Return(t, Reply("reset_error", 0))
      [] t.pc = "qp_progress" -> Go(t, "so_get")
      [] t.pc = "handler" -> Return(t, Reply("fallback", 0))

Raises(i) ==
    LET t == tasks[i] IN
    /\ t.pc \in {"so_get", "so_create", "por_get", "mda_get", "mda_update", "chk_get",
                "chk_update", "co_update", "co_get", "rs_update", "qp_progress", "handler"}
    /\ Apply(i, users, OnFault(t))

\* whatsapp_webhook and process_whatsapp_message while no other event is
\* in processing
DeliverSeq ==
    \E u \in Senders, e \in Events :
        /\ ~Busy
        /\ Enqueue(u, Route(NewTask(u, e[1], e[2], "router", "fetch", FALSE)))

\* a router without the except branch: the fault leaves the task raised
DeliverRaises_propagating ==
    \E u \in Senders, e \in Events :
        /\ ~Busy
        /\ Enqueue(u, Go(NewTask(u, e[1], e[2], "router", "fetch", FALSE), "raised"))

\* process_whatsapp_message, lines 814 and 886-901: the profile fetch
\* raises, the router apologises
DeliverRaises ==
    \E u \in Senders, e \in Events :
        /\ ~Busy
        /\ Enqueue(u, Return(NewTask(u, e[1], e[2], "router", "fetch", FALSE),
                              Reply("apology", 0)))

\* whatsapp_webhook and process_whatsapp_message for any identity while no
\* other event is in processing
DeliverPair ==
    \E u \in Users, e \in Events :
        /\ ~Busy
        \* the answers accepted so far, over all identities
        /\ Cardinality(UNION {{<<v, k>> : k \in 1..Len(consumed[v])} : v \in Users})
              <= MaxAnswers
        /\ Enqueue(u, Route(NewTask(u, e[1], e[2], "router", "fetch", FALSE)))

\* the messaging API goes down or comes back
TwilioFlips ==
    /\ ~Busy
    /\ twilio_up' = ~twilio_up
    /\ sent' = NothingSent
    /\ ended' = ""
    /\ UNCHANGED <<users, onboarding_states, heap, tasks, seq, consumed,
                   finalAnswer, overlaps, regs, ext>>

(***************************************************************************)
(* The erase endpoint of api/main.py.                                      *)
(***************************************************************************)
NotErased == [to |-> "", ok |-> FALSE, bit |-> 0]

\* the attributes that DatabaseManager.__init__ sets
DatabaseManagerAttrs ==
    {"mongodb", "user_repo", "document_repo", "sqlite_db", "chat_repo", "session_repo",
     "redis_cache", "faq_cache", "user_cache"}

\* delete_user_data(phone_number): line 1114 reads db_manager.user_repository,
\* an attribute that DatabaseManager does not have, so the AttributeError
\* is caught at line 1124 and answered with HTTP 500 before anything was
\* deleted; bit tells one call from the next
EraseUser ==
    \E u \in Users :
        /\ erased' = [to |-> u, ok |-> "user_repository" \in DatabaseManagerAttrs,
                      bit |-> 1 - erased.bit]
        /\ UNCHANGED <<core, regs, advice, profile, verdict, earlier, disclaimed, aux>>

(***************************************************************************)
(* The safety validator, utils/safety_validator.py.                        *)
(***************************************************************************)
\* the object None where a str is expected
None == <<"None">>

\* sub in text
Contains(text, sub) ==
    \E i \in 0..(Len(text) - Len(sub)) : SubSeq(text, i + 1, i + Len(sub)) = sub

\* item in list
InList(item, list) == \E i \in 1..Len(list) : list[i] = item

\* [s.lower() for s in list]
LowerAll(list) == [i \in 1..Len(list) |-> Lower(list[i])]

RECURSIVE Flatten(_)
Flatten(lists) == IF Len(lists) = 0 THEN <<>> ELSE Head(lists) \o Flatten(Tail(lists))

\* sep.join(parts)
RECURSIVE Join(_, _)
Join(sep, parts) ==
    IF Len(parts) = 0 THEN <<>>
    ELSE IF Len(parts) = 1 THEN parts[1]
    ELSE parts[1] \o sep \o Join(sep, Tail(parts))

emergency_keywords ==
    {<<"c", "h", "e", "s", "t", " ", "p", "a", "i", "n">>,
     <<"h", "e", "a", "r", "t", " ", "a", "t", "t", "a", "c", "k">>,
     <<"s", "t", "r", "o", "k", "e">>,
     <<"d", "i", "f", "f", "i", "c", "u", "l", "t", "y", " ", "b", "r", "e", "a", "t", "h",
       "i", "n", "g">>,
     <<"s", "e", "v", "e", "r", "e", " ", "b", "l", "e", "e", "d", "i", "n", "g">>,
     <<"u", "n", "c", "o", "n", "s", "c", "i", "o", "u", "s">>,
     <<"s", "e", "i", "z", "u", "r", "e">>,
     <<"a", "n", "a", "p", "h", "y", "l", "a", "x", "i", "s">>,
     <<"s", "e", "v", "e", "r", "e", " ", "a", "l", "l", "e", "r", "g", "i", "c", " ", "r",
       "e", "a", "c", "t", "i", "o", "n">>,
     <<"o", "v", "e", "r", "d", "o", "s", "e">>,
     <<"p", "o", "i", "s", "o", "n", "i", "n", "g">>,
     <<"s", "e", "v", "e", "r", "e", " ", "b", "u", "r", "n", "s">>,
     <<"b", "r", "o", "k", "e", "n", " ", "b", "o", "n", "e">>,
     <<"h", "e", "a", "d", " ", "i", "n", "j", "u", "r", "y">>,
     <<"s", "e", "v", "e", "r", "e", " ", "p", "a", "i", "n">>,
     <<"c", "a", "n", "n", "o", "t", " ", "b", "r", "e", "a", "t", "h", "e">>,
     <<"c", "h", "o", "k", "i", "n", "g">>,
     <<"c", "a", "r", "d", "i", "a", "c", " ", "a", "r", "r", "e", "s", "t">>,
     <<"c", "o", "m", "a">>,
     <<"s", "e", "v", "e", "r", "e", " ", "d", "e", "h", "y", "d", "r", "a", "t", "i", "o", "n">>,
     <<"h", "i", "g", "h", " ", "f", "e", "v", "e", "r", " ", "i", "n", " ", "i", "n", "f",
       "a", "n", "t">>,
     <<"s", "e", "v", "e", "r", "e", " ", "v", "o", "m", "i", "t", "i", "n", "g">>,
     <<"s", "e", "v", "e", "r", "e", " ", "d", "i", "a", "r", "r", "h", "e", "a">>,
     <<"b", "l", "o", "o", "d", " ", "i", "n", " ", "v", "o", "m", "i", "t">>,
     <<"b", "l", "o", "o", "d", " ", "i", "n", " ", "s", "t", "o", "o", "l">>,
     <<"s", "u", "d", "d", "e", "n", " ", "v", "i", "s", "i", "o", "n", " ", "l", "o", "s", "s">>,
     <<"s", "u", "d", "d", "e", "n", " ", "h", "e", "a", "r", "i", "n", "g", " ", "l", "o",
       "s", "s">>,
     <<"p", "a", "r", "a", "l", "y", "s", "i", "s">>,
     <<"s", "e", "v", "e", "r", "e", " ", "a", "b", "d", "o", "m", "i", "n", "a", "l", " ",
       "p", "a", "i", "n">>,
     <<"a", "p", "p", "e", "n", "d", "i", "c", "i", "t", "i", "s">>,
     <<"m", "e", "n", "i", "n", "g", "i", "t", "i", "s">>}

urgent_symptoms ==
    {<<"h", "i", "g", "h", " ", "f", "e", "v", "e", "r">>,
     <<"p", "e", "r", "s", "i", "s", "t", "e", "n", "t", " ", "v", "o", "m", "i", "t", "i",
       "n", "g">>,
     <<"s", "e", "v", "e", "r", "e", " ", "h", "e", "a", "d", "a", "c", "h", "e">>,
     <<"s", "h", "o", "r", "t", "n", "e", "s", "s", " ", "o", "f", " ", "b", "r", "e", "a",
       "t", "h">>,
     <<"r", "a", "p", "i", "d", " ", "h", "e", "a", "r", "t", "b", "e", "a", "t">>,
     <<"d", "i", "z", "z", "i", "n", "e", "s", "s">>,
     <<"f", "a", "i", "n", "t", "i", "n", "g">>,
     <<"c", "o", "n", "f", "u", "s", "i", "o", "n">>,
     <<"s", "e", "v", "e", "r", "e", " ", "f", "a", "t", "i", "g", "u", "e">>,
     <<"j", "a", "u", "n", "d", "i", "c", "e">>,
     <<"s", "w", "e", "l", "l", "i", "n", "g">>,
     <<"u", "n", "u", "s", "u", "a", "l", " ", "b", "l", "e", "e", "d", "i", "n", "g">>,
     <<"s", "e", "v", "e", "r", "e", " ", "r", "a", "s", "h">>,
     <<"d", "i", "f", "f", "i", "c", "u", "l", "t", "y", " ", "s", "w", "a", "l", "l", "o",
       "w", "i", "n", "g">>,
     <<"s", "e", "v", "e", "r", "e", " ", "c", "o", "u", "g", "h">>,
     <<"w", "h", "e", "e", "z", "i", "n", "g">>}

pediatric_warnings ==
    {<<"a", "s", "p", "i", "r", "i", "n">>,
     <<"i", "b", "u", "p", "r", "o", "f", "e", "n", " ", "u", "n", "d", "e", "r", " ", "6",
       " ", "m", "o", "n", "t", "h", "s">>,
     <<"h", "o", "n", "e", "y", " ", "u", "n", "d", "e", "r", " ", "1", " ", "y", "e", "a", "r">>,
     <<"a", "d", "u", "l", "t", " ", "d", "o", "s", "a", "g", "e">>,
     <<"p", "r", "e", "s", "c", "r", "i", "p", "t", "i", "o", "n", " ", "m", "e", "d", "i",
       "c", "a", "t", "i", "o", "n", " ", "w", "i", "t", "h", "o", "u", "t", " ", "d", "o",
       "c", "t", "o", "r">>}

\* the dictionary in insertion order
medication_interactions ==
    <<[med1 |-> <<"w", "a", "r", "f", "a", "r", "i", "n">>, med2 |-> <<"a", "s", "p", "i", "r",
      "i", "n">>,
       warning |-> <<"I", "n", "c", "r", "e", "a", "s", "e", "d", " ", "b", "l", "e", "e", "d",
         "i", "n", "g", " ", "r", "i", "s", "k">>],
      [med1 |-> <<"m", "e", "t", "f", "o", "r", "m", "i", "n">>, med2 |-> <<"a", "l", "c", "o",
        "h", "o", "l">>,
       warning |-> <<"R", "i", "s", "k", " ", "o", "f", " ", "l", "a", "c", "t", "i", "c", " ",
         "a", "c", "i", "d", "o", "s", "i", "s">>],
      [med1 |-> <<"l", "i", "t", "h", "i", "u", "m">>, med2 |-> <<"n", "s", "a", "i", "d">>,
       warning |-> <<"L", "i", "t", "h", "i", "u", "m", " ", "t", "o", "x", "i", "c", "i", "t",
         "y", " ", "r", "i", "s", "k">>],
      [med1 |-> <<"d", "i", "g", "o", "x", "i", "n">>, med2 |-> <<"d", "i", "u", "r", "e", "t",
        "i", "c">>,
       warning |-> <<"E", "l", "e", "c", "t", "r", "o", "l", "y", "t", "e", " ", "i", "m", "b",
         "a", "l", "a", "n", "c", "e", " ", "r", "i", "s", "k">>]>>

condition_contraindications ==
    <<[condition |-> <<"p", "r", "e", "g", "n", "a", "n", "c", "y">>,
       items |-> <<<<"a", "s", "p", "i", "r", "i", "n">>, <<"i", "b", "u", "p", "r", "o", "f",
         "e", "n">>, <<
         "a", "l", "c", "o", "h", "o", "l">>, <<
         "s", "m", "o", "k", "i", "n", "g">>>>],
      [condition |-> <<"h", "y", "p", "e", "r", "t", "e", "n", "s", "i", "o", "n">>,
       items |-> <<<<"n", "s", "a", "i", "d", "s">>, <<"d", "e", "c", "o", "n", "g", "e", "s",
         "t", "a", "n", "t", "s">>, <<
         "h", "i", "g", "h", " ", "s", "o", "d", "i", "u", "m">>>>],
      [condition |-> <<"d", "i", "a", "b", "e", "t", "e", "s">>,
       items |-> <<<<"h", "i", "g", "h", " ", "s", "u", "g", "a", "r">>, <<"s", "t", "e", "r",
         "o", "i", "d", "s">>, <<
         "c", "e", "r", "t", "a", "i", "n", " ", "a", "n", "t", "i", "b", "i", "o", "t", "i",
         "c", "s">>>>],
      [condition |-> <<"k", "i", "d", "n", "e", "y", " ", "d", "i", "s", "e", "a", "s", "e">>,
       items |-> <<<<"n", "s", "a", "i", "d", "s">>, <<"c", "e", "r", "t", "a", "i", "n", " ",
         "a", "n", "t", "i", "b", "i", "o", "t", "i", "c", "s">>, <<
         "p", "o", "t", "a", "s", "s", "i", "u", "m">>>>],
      [condition |-> <<"l", "i", "v", "e", "r", " ", "d", "i", "s", "e", "a", "s", "e">>,
       items |-> <<<<"a", "c", "e", "t", "a", "m", "i", "n", "o", "p", "h", "e", "n", " ", "h",
         "i", "g", "h", " ", "d", "o", "s", "e">>, <<
         "a", "l", "c", "o", "h", "o", "l">>, <<
         "c", "e", "r", "t", "a", "i", "n", " ", "h", "e", "r", "b", "s">>>>]>>

\* _check_allergy_contraindications, lines 241-246
allergy_related ==
    <<[allergy |-> <<"p", "e", "n", "i", "c", "i", "l", "l", "i", "n">>,
       items |-> <<<<"a", "m", "o", "x", "i", "c", "i", "l", "l", "i", "n">>, <<"a", "m", "p",
         "i", "c", "i", "l", "l", "i", "n">>, <<
         "a", "n", "t", "i", "b", "i", "o", "t", "i", "c", "s">>>>],
      [allergy |-> <<"a", "s", "p", "i", "r", "i", "n">>,
       items |-> <<<<"n", "s", "a", "i", "d", "s">>, <<"i", "b", "u", "p", "r", "o", "f", "e", "n">>, <<
         "n", "a", "p", "r", "o", "x", "e", "n">>>>],
      [allergy |-> <<"s", "u", "l", "f", "a">>,
       items |-> <<<<"s", "u", "l", "f", "a", "m", "e", "t", "h", "o", "x", "a", "z", "o", "l",
         "e">>, <<
         "t", "r", "i", "m", "e", "t", "h", "o", "p", "r", "i", "m">>>>],
      [allergy |-> <<"l", "a", "t", "e", "x">>,
       items |-> <<<<"r", "u", "b", "b", "e", "r">>, <<"g", "l", "o", "v", "e", "s">>>>]>>

\* the string literals of the validator, and of the router's reply to an
\* unsupported attachment (main.py, line 864)
Txt ==
    [emergency_phrases |->
       {<<"c", "a", "l", "l", " ", "9", "1", "1">>,
        <<"e", "m", "e", "r", "g", "e", "n", "c", "y", " ", "r", "o", "o", "m">>,
        <<"i", "m", "m", "e", "d", "i", "a", "t", "e", " ", "m", "e", "d", "i", "c", "a", "l",
          " ", "a", "t", "t", "e", "n", "t", "i", "o", "n">>,
        <<"l", "i", "f", "e", " ", "t", "h", "r", "e", "a", "t", "e", "n", "i", "n", "g">>,
        <<"c", "r", "i", "t", "i", "c", "a", "l", " ", "c", "o", "n", "d", "i", "t", "i", "o", "n">>,
        <<"u", "r", "g", "e", "n", "t", " ", "c", "a", "r", "e">>},
     elderly_warnings |->
       {<<"k", "i", "d", "n", "e", "y", " ", "f", "u", "n", "c", "t", "i", "o", "n">>,
        <<"l", "i", "v", "e", "r", " ", "f", "u", "n", "c", "t", "i", "o", "n">>,
        <<"d", "r", "u", "g", " ", "i", "n", "t", "e", "r", "a", "c", "t", "i", "o", "n", "s">>},
     medication_indicators |->
       {<<"m", "e", "d", "i", "c", "a", "t", "i", "o", "n">>,
        <<"d", "r", "u", "g">>,
        <<"p", "i", "l", "l">>},
     adult_dose |->
       <<"a", "d", "u", "l", "t", " ", "d", "o", "s", "e">>,
     standard_dose |->
       <<"s", "t", "a", "n", "d", "a", "r", "d", " ", "d", "o", "s", "e">>,
     aspirin |->
       <<"a", "s", "p", "i", "r", "i", "n">>,
     pediatric_precautions |->
       <<"P", "e", "d", "i", "a", "t", "r", "i", "c", " ", "m", "e", "d", "i", "c", "a", "t",
         "i", "o", "n", " ", "p", "r", "e", "c", "a", "u", "t", "i", "o", "n", "s", " ", "a",
         "p", "p", "l", "y">>,
     infant_dosing |->
       <<"I", "n", "f", "a", "n", "t", " ", "d", "o", "s", "i", "n", "g", " ", "r", "e", "q",
         "u", "i", "r", "e", "s", " ", "p", "e", "d", "i", "a", "t", "r", "i", "c", " ", "c",
         "o", "n", "s", "u", "l", "t", "a", "t", "i", "o", "n">>,
     aspirin_under_12 |->
       <<"A", "s", "p", "i", "r", "i", "n", " ", "n", "o", "t", " ", "r", "e", "c", "o", "m",
         "m", "e", "n", "d", "e", "d", " ", "f", "o", "r", " ", "c", "h", "i", "l", "d", "r",
         "e", "n", " ", "u", "n", "d", "e", "r", " ", "1", "2">>,
     elderly_consideration |->
       <<"E", "l", "d", "e", "r", "l", "y", " ", "p", "a", "t", "i", "e", "n", "t", "s", " ",
         "r", "e", "q", "u", "i", "r", "e", " ", "s", "p", "e", "c", "i", "a", "l", " ", "c",
         "o", "n", "s", "i", "d", "e", "r", "a", "t", "i", "o", "n">>,
     interaction_warning |->
       <<"I", "n", "t", "e", "r", "a", "c", "t", "i", "o", "n", " ", "w", "a", "r", "n", "i",
         "n", "g", ":", " ">>,
     check_with_doctor |->
       <<"C", "h", "e", "c", "k", " ", "w", "i", "t", "h", " ", "d", "o", "c", "t", "o", "r",
         " ", "b", "e", "f", "o", "r", "e", " ", "a", "d", "d", "i", "n", "g", " ", "n", "e",
         "w", " ", "m", "e", "d", "i", "c", "a", "t", "i", "o", "n", "s">>,
     caution_colon |->
       <<"C", "a", "u", "t", "i", "o", "n", ":", " ">>,
     may_not_be_suitable |->
       <<" ", "m", "a", "y", " ", "n", "o", "t", " ", "b", "e", " ", "s", "u", "i", "t", "a",
         "b", "l", "e", " ", "f", "o", "r", " ">>,
     allergy_alert |->
       <<"A", "L", "L", "E", "R", "G", "Y", " ", "A", "L", "E", "R", "T", ":", " ", "P", "a",
         "t", "i", "e", "n", "t", " ", "a", "l", "l", "e", "r", "g", "i", "c", " ", "t", "o", " ">>,
     caution_upper |->
       <<"C", "A", "U", "T", "I", "O", "N", ":", " ">>,
     may_cross_react |->
       <<" ", "m", "a", "y", " ", "c", "r", "o", "s", "s", "-", "r", "e", "a", "c", "t", " ",
         "w", "i", "t", "h", " ">>,
     allergy_suffix |->
       <<" ", "a", "l", "l", "e", "r", "g", "y">>,
     emergency_part |->
       <<"U+1F6A8", " ", "E", "M", "E", "R", "G", "E", "N", "C", "Y", ":", " ", "S", "e", "e",
         "k", " ", "i", "m", "m", "e", "d", "i", "a", "t", "e", " ", "m", "e", "d", "i", "c",
         "a", "l", " ", "a", "t", "t", "e", "n", "t", "i", "o", "n">>,
     age_part |->
       <<"U+26A0", "U+FE0F", " ", "A", "g", "e", "-", "s", "p", "e", "c", "i", "f", "i", "c",
         " ", "p", "r", "e", "c", "a", "u", "t", "i", "o", "n", "s", " ", "a", "p", "p", "l", "y">>,
     contraindications_part |->
       <<"U+26A0", "U+FE0F", " ", "M", "e", "d", "i", "c", "a", "l", " ", "c", "o", "n", "t",
         "r", "a", "i", "n", "d", "i", "c", "a", "t", "i", "o", "n", "s", " ", "d", "e", "t",
         "e", "c", "t", "e", "d">>,
     separator |->
       <<" ", "|", " ">>,
     unable |->
       <<"U", "n", "a", "b", "l", "e", " ", "t", "o", " ", "p", "e", "r", "f", "o", "r", "m",
         " ", "c", "o", "m", "p", "l", "e", "t", "e", " ", "s", "a", "f", "e", "t", "y", " ",
         "c", "h", "e", "c", "k">>,
     disclaimer |->
       <<"\n", "\n", "U+26A0", "U+FE0F", " ", "T", "h", "i", "s", " ", "i", "s", " ", "A", "I",
         " ", "g", "u", "i", "d", "a", "n", "c", "e", " ", "o", "n", "l", "y", ".", " ", "P",
         "l", "e", "a", "s", "e", " ", "c", "o", "n", "s", "u", "l", "t", " ", "a", " ", "d",
         "o", "c", "t", "o", "r", " ", "f", "o", "r", " ", "c", "o", "n", "f", "i", "r", "m",
         "a", "t", "i", "o", "n", ".">>,
     AI_guidance_only |->
       <<"A", "I", " ", "g", "u", "i", "d", "a", "n", "c", "e", " ", "o", "n", "l", "y">>,
     consult_a_doctor |->
       <<"c", "o", "n", "s", "u", "l", "t", " ", "a", " ", "d", "o", "c", "t", "o", "r">>,
     unsupported_media |->
       <<"U", "n", "s", "u", "p", "p", "o", "r", "t", "e", "d", " ", "m", "e", "d", "i", "a",
         " ", "t", "y", "p", "e", ".", " ", "P", "l", "e", "a", "s", "e", " ", "s", "e", "n",
         "d", " ", "a", "n", " ", "i", "m", "a", "g", "e", " ", "(", "J", "P", "G", "/", "P",
         "N", "G", ")", " ", "o", "r", " ", "P", "D", "F", " ", "r", "e", "p", "o", "r", "t", ".">>,
     standard_disclaimer |->
       <<"U+26A0", "U+FE0F", " ", "T", "h", "i", "s", " ", "i", "s", " ", "A", "I", " ", "g",
         "u", "i", "d", "a", "n", "c", "e", " ", "o", "n", "l", "y", ".", " ", "P", "l", "e",
         "a", "s", "e", " ", "c", "o", "n", "s", "u", "l", "t", " ", "a", " ", "d", "o", "c",
         "t", "o", "r", " ", "f", "o", "r", " ", "c", "o", "n", "f", "i", "r", "m", "a", "t",
         "i", "o", "n", ".">>]

\* a check that also takes the urgent symptoms for emergencies
check_emergency_keywords_urgent(text) ==
    LET text_lower == Lower(text)
        emergency_found == \E keyword \in emergency_keywords : Contains(text_lower, keyword)
        urgent_found == \E keyword \in urgent_symptoms : Contains(text_lower, keyword)
        phrase_found == \E phrase \in Txt.emergency_phrases : Contains(text_lower, phrase)
    IN  [has_emergency |-> emergency_found \/ phrase_found \/ urgent_found,
         requires_immediate |-> emergency_found \/ phrase_found \/ urgent_found,
         urgent_symptoms |-> urgent_found,
         keywords_found |-> {kw \in emergency_keywords : Contains(text_lower, kw)}]

\* MedicalSafetyValidator._check_emergency_keywords (keywords_found is a
\* list in the iteration order of a set; the verdict does not read it)
check_emergency_keywords(text) ==
    LET text_lower == Lower(text)
        emergency_found == \E keyword \in emergency_keywords : Contains(text_lower, keyword)
        urgent_found == \E keyword \in urgent_symptoms : Contains(text_lower, keyword)
        phrase_found == \E phrase \in Txt.emergency_phrases : Contains(text_lower, phrase)
    IN  [has_emergency |-> emergency_found \/ phrase_found,
         requires_immediate |-> emergency_found \/ phrase_found,
         urgent_symptoms |-> urgent_found,
         keywords_found |-> {kw \in emergency_keywords : Contains(text_lower, kw)}]

\* an age check that applies the pediatric markers at every age
validate_age_appropriateness_any_age(text, age) ==
    LET text_lower == Lower(text)
        pediatric == \E warning \in pediatric_warnings : Contains(text_lower, warning)
    IN  [appropriate |-> ~pediatric,
         warnings |-> IF pediatric THEN <<Txt.pediatric_precautions>> ELSE <<>>]

\* MedicalSafetyValidator._validate_age_appropriateness
validate_age_appropriateness(text, age) ==
    LET text_lower == Lower(text)
        pediatric == \E warning \in pediatric_warnings : Contains(text_lower, warning)
        infant == age < 2 /\ (Contains(text_lower, Txt.adult_dose)
                               \/ Contains(text_lower, Txt.standard_dose))
        child == age < 12 /\ Contains(text_lower, Txt.aspirin)
        elderly == \E warning \in Txt.elderly_warnings : Contains(text_lower, warning)
    IN  IF age < 18
        THEN [appropriate |-> ~(pediatric \/ infant \/ child),
              warnings |-> (IF pediatric THEN <<Txt.pediatric_precautions>> ELSE <<>>)
                           \o (IF infant THEN <<Txt.infant_dosing>> ELSE <<>>)
                           \o (IF child THEN <<Txt.aspirin_under_12>> ELSE <<>>)]
        ELSE IF age > 65
             THEN [appropriate |-> TRUE,
                   warnings |-> IF elderly THEN <<Txt.elderly_consideration>> ELSE <<>>]
        ELSE [appropriate |-> TRUE, warnings |-> <<>>]

\* an interaction check that reads the table in one direction only
check_medication_interactions_one_way(text, user_profile) ==
    LET text_lower == Lower(text)
        current_meds == LowerAll(user_profile.current_medications)
        hits == SelectSeq(medication_interactions,
                          LAMBDA r : InList(r.med1, current_meds)
                                     /\ Contains(text_lower, r.med2))
        interactions == [i \in 1..Len(hits) |-> Txt.interaction_warning \o hits[i].warning]
    IN  IF Len(current_meds) > 0
           /\ \E indicator \in Txt.medication_indicators : Contains(text_lower, indicator)
        THEN Append(interactions, Txt.check_with_doctor)
        ELSE interactions

\* MedicalSafetyValidator._check_medication_interactions
check_medication_interactions(text, user_profile) ==
    LET text_lower == Lower(text)
        current_meds == LowerAll(user_profile.current_medications)
        hits == SelectSeq(medication_interactions,
                          LAMBDA r : (InList(r.med1, current_meds)
                                      /\ Contains(text_lower, r.med2))
                                     \/ (InList(r.med2, current_meds)
                                         /\ Contains(text_lower, r.med1)))
        interactions == [i \in 1..Len(hits) |-> Txt.interaction_warning \o hits[i].warning]
    IN  IF Len(current_meds) > 0
           /\ \E indicator \in Txt.medication_indicators : Contains(text_lower, indicator)
        THEN Append(interactions, Txt.check_with_doctor)
        ELSE interactions

\* MedicalSafetyValidator._check_condition_contraindications
check_condition_contraindications(text, user_profile) ==
    LET text_lower == Lower(text)
        conditions == user_profile.existing_conditions
        for_condition(condition) ==
            LET rows == SelectSeq(condition_contraindications,
                                  LAMBDA r : r.condition = Lower(condition))
                items == IF Len(rows) = 0 THEN <<>> ELSE rows[1].items
                found == SelectSeq(items, LAMBDA item : Contains(text_lower, item))
            IN  [j \in 1..Len(found) |->
                    Txt.caution_colon \o found[j] \o Txt.may_not_be_suitable \o condition]
    IN  Flatten([i \in 1..Len(conditions) |-> for_condition(conditions[i])])

\* an allergy check without the table of related substances
check_allergy_contraindications_direct(text, user_profile) ==
    LET text_lower == Lower(text)
        allergies == user_profile.allergies
        for_allergy(allergy) ==
            IF Contains(text_lower, Lower(allergy))
            THEN <<Txt.allergy_alert \o allergy>> ELSE <<>>
    IN  Flatten([i \in 1..Len(allergies) |-> for_allergy(allergies[i])])

\* MedicalSafetyValidator._check_allergy_contraindications
check_allergy_contraindications(text, user_profile) ==
    LET text_lower == Lower(text)
        allergies == user_profile.allergies
        for_allergy(allergy) ==
            LET allergy_lower == Lower(allergy)
                rows == SelectSeq(allergy_related, LAMBDA r : r.allergy = allergy_lower)
                items == IF Len(rows) = 0 THEN <<>> ELSE rows[1].items
                found == SelectSeq(items, LAMBDA item : Contains(text_lower, item))
            IN  (IF Contains(text_lower, allergy_lower)
                 THEN <<Txt.allergy_alert \o allergy>> ELSE <<>>)
                \o [j \in 1..Len(found) |->
                       Txt.caution_upper \o found[j] \o Txt.may_cross_react \o allergy
                       \o Txt.allergy_suffix]
    IN  Flatten([i \in 1..Len(allergies) |-> for_allergy(allergies[i])])

\* SafetyCheck(...)
SafetyCheck(emergency, immediate, appropriate, contraindications, warning) ==
    [has_emergency_symptoms |-> emergency, requires_immediate_attention |-> immediate,
     age_appropriate |-> appropriate, contraindications |-> contraindications,
     warning_message |-> warning]

\* a warning that tells of emergencies only
warning_message_emergency_only(emergency, appropriate, contraindications) ==
    IF emergency THEN Txt.emergency_part ELSE None

\* validate_medical_advice, lines 94-107: the warning of the verdict
warning_message(emergency, appropriate, contraindications) ==
    LET warning_parts ==
            (IF emergency THEN <<Txt.emergency_part>> ELSE <<>>)
            \o (IF ~appropriate THEN <<Txt.age_part>> ELSE <<>>)
            \o (IF Len(contraindications) > 0 THEN <<Txt.contraindications_part>> ELSE <<>>)
    IN  IF Len(warning_parts) > 0 THEN Join(Txt.separator, warning_parts) ELSE None

\* validate_medical_advice, lines 66-110: the try block
validate_checks(advice_text, user_profile) ==
    LET emergency_check == check_emergency_keywords(advice_text)
        aged == user_profile.present /\ user_profile.age # 0
        age_check == IF aged
                     THEN validate_age_appropriateness(advice_text, user_profile.age)
                     ELSE [appropriate |-> TRUE, warnings |-> <<>>]
        contraindications ==
            (IF ~age_check.appropriate THEN age_check.warnings ELSE <<>>)
            \o (IF user_profile.present
                THEN check_medication_interactions(advice_text, user_profile)
                     \o check_condition_contraindications(advice_text, user_profile)
                     \o check_allergy_contraindications(advice_text, user_profile)
                ELSE <<>>)
    IN  SafetyCheck(emergency_check.has_emergency, emergency_check.requires_immediate,
                    age_check.appropriate, contraindications,
                    warning_message(emergency_check.has_emergency, age_check.appropriate,
                                    contraindications))

\* the sub-checks raise: None for the text makes text.lower() raise in
\* _check_emergency_keywords, the first sub-check
Faults(advice_text, user_profile) == advice_text = None

\* a validator whose except branch returns the defaults of SafetyCheck
validate_medical_advice_silent(advice_text, user_profile) ==
    IF Faults(advice_text, user_profile)
    THEN SafetyCheck(FALSE, FALSE, TRUE, <<>>, None)
    ELSE validate_checks(advice_text, user_profile)

\* MedicalSafetyValidator.validate_medical_advice: the try block, or the
\* verdict of the except branch, lines 112-120
validate_medical_advice(advice_text, user_profile) ==
    IF Faults(advice_text, user_profile)
    THEN SafetyCheck(FALSE, FALSE, TRUE, <<>>, Txt.unable)
    ELSE validate_checks(advice_text, user_profile)

\* MedicalSafetyValidator.add_medical_disclaimer
add_medical_disclaimer(advice_text) ==
    IF Contains(advice_text, Txt.AI_guidance_only) \/ Contains(advice_text, Txt.consult_a_doctor)
    THEN advice_text
    ELSE advice_text \o Txt.disclaimer

\* no profile passed (user_profile=None)
NoProfile ==
    [present |-> FALSE, age |-> 0, allergies |-> <<>>, existing_conditions |-> <<>>,
     current_medications |-> <<>>]

\* UserProfile as the validator reads it; age 0 stands for age None
\* (ages are 1..120 by the Questions[question].field_name constraint)
Profile(age, allergies, conditions, medications) ==
    [present |-> TRUE, age |-> age, allergies |-> allergies,
     existing_conditions |-> conditions, current_medications |-> medications]

\* the profiles handed to the validator
ProfileInputs ==
    {NoProfile,
     Profile(0, <<>>, <<>>, <<>>),
     Profile(1, <<>>, <<>>, <<>>),
     Profile(10, <<<<"P", "e", "n", "i", "c", "i", "l", "l", "i", "n">>>>, <<>>, <<>>),
     Profile(15, <<>>, <<>>, <<>>),
     Profile(18, <<>>, <<>>, <<>>),
     Profile(30, <<<<"a", "s", "p", "i", "r", "i", "n">>>>, <<>>, <<<<"W", "a", "r", "f", "a",
       "r", "i", "n">>>>),
     Profile(30, <<>>, <<<<"P", "r", "e", "g", "n", "a", "n", "c", "y">>>>, <<<<"m", "e", "t",
       "f", "o", "r", "m", "i", "n">>>>),
     Profile(66, <<>>, <<>>, <<<<"a", "s", "p", "i", "r", "i", "n">>>>),
     Profile(70, <<<<"P", "e", "n", "i", "c", "i", "l", "l", "i", "n">>, <<"a", "s", "p", "i",
       "r", "i", "n">>>>, <<>>, <<>>)}

\* what is handed to the validator as reply text: None or a str
AdviceTexts ==
    {None,
     <<"R", "e", "s", "t", " ", "w", "e", "l", "l">>,
     <<"C", "h", "e", "s", "t", " ", "P", "a", "i", "n">>,
     <<"C", "a", "l", "l", " ", "9", "1", "1">>,
     <<"h", "i", "g", "h", " ", "f", "e", "v", "e", "r">>,
     <<"T", "a", "k", "e", " ", "A", "s", "p", "i", "r", "i", "n">>,
     <<"a", "d", "u", "l", "t", " ", "d", "o", "s", "e">>,
     <<"c", "h", "e", "c", "k", " ", "k", "i", "d", "n", "e", "y", " ", "f", "u", "n", "c",
       "t", "i", "o", "n">>,
     <<"d", "r", "u", "g", " ", "i", "n", "t", "e", "r", "a", "c", "t", "i", "o", "n", "s">>,
     <<"a", " ", "n", "e", "w", " ", "p", "i", "l", "l">>,
     <<"a", "m", "o", "x", "i", "c", "i", "l", "l", "i", "n">>,
     <<"I", "b", "u", "p", "r", "o", "f", "e", "n", " ", "o", "r", " ", "a", "m", "o", "x",
       "i", "c", "i", "l", "l", "i", "n">>,
     <<"p", "e", "n", "i", "c", "i", "l", "l", "i", "n">>,
     <<"n", "o", " ", "a", "l", "c", "o", "h", "o", "l">>,
     <<"w", "a", "r", "f", "a", "r", "i", "n">>,
     <<"R", "e", "s", "t", ".", " ", "P", "l", "e", "a", "s", "e", " ", "c", "o", "n", "s",
       "u", "l", "t", " ", "a", " ", "d", "o", "c", "t", "o", "r">>}

\* a validator that keeps the contraindications of the remembered call
Validate_accumulating ==
    LET result == validate_medical_advice(advice, profile)
        kept == IF earlier = <<>> THEN <<>> ELSE earlier[1].verdict.contraindications
        v == [result EXCEPT !.contraindications = kept \o @]
    IN  /\ verdict' = <<v>>
        /\ \E remember \in BOOLEAN :
              earlier' = IF remember /\ verdict # <<>>
                         THEN <<[advice |-> advice, profile |-> profile,
                                 verdict |-> verdict[1]]>>
                         ELSE earlier
        /\ UNCHANGED <<core, regs, erased, advice, profile, disclaimed, aux>>

\* await validate_medical_advice(advice, profile); the caller may keep the
\* arguments and the verdict of its previous call for later
Validate ==
    LET v == validate_medical_advice(advice, profile)
    IN  /\ verdict' = <<v>>
        /\ \E remember \in BOOLEAN :
              earlier' = IF remember /\ verdict # <<>>
                         THEN <<[advice |-> advice, profile |-> profile,
                                 verdict |-> verdict[1]]>>
                         ELSE earlier
        /\ UNCHANGED <<core, regs, erased, advice, profile, disclaimed, aux>>

\* add_medical_disclaimer(text), on the reply and then on what it returned
AddDisclaimer ==
    /\ advice # None
    /\ disclaimed' = <<add_medical_disclaimer(IF disclaimed = <<>> THEN advice
                                               ELSE disclaimed[1])>>
    /\ UNCHANGED <<core, regs, erased, advice, profile, verdict, earlier, aux>>

\* the next reply is handed to the validator
NextAdvice ==
    \E text \in AdviceTexts \ {advice} :
        /\ advice' = text
        /\ verdict' = <<>>
        /\ disclaimed' = <<>>
        /\ UNCHANGED <<core, regs, erased, profile, earlier, aux>>

\* the next sender's profile is handed to the validator
NextProfile ==
    \E p \in ProfileInputs \ {profile} :
        /\ profile' = p
        /\ verdict' = <<>>
        /\ UNCHANGED <<core, regs, erased, advice, earlier, disclaimed, aux>>

(***************************************************************************)
(* One answer to one onboarding question: the validator of                 *)
(* OnboardingService and the update MedicalDataAgent builds from it.       *)
(***************************************************************************)
\* answers a sender may type
AnswerTexts ==
    {<<>>, <<" ">>, <<"a">>, <<"J", "o">>, <<"J", "0", "e">>, <<" ", "A", "s", "h", "a", " ">>,
     <<"0">>, <<"1">>, <<"1", "2", "0">>, <<"1", "2", "1">>, <<" ", "4", "5", " ">>, <<"4", "x">>,
     <<"m", "a", "l", "e">>, <<"M", "a", "l", "e">>, <<" ", "m", "a", "l", "e">>, <<"O", "T",
       "H", "E", "R">>, <<
       "m", "a", "n">>,
     <<"A", "y", "u", "r", "v", "e", "d", "i", "c">>, <<"h", "o", "m", "e", "_", "r", "e", "m",
       "e", "d", "i", "e", "s">>, <<
       "h", "e", "r", "b", "a", "l">>,
     <<"n", "o", "n", "e">>, <<"N", "O", "N", "E">>, <<"N", "o", "n", "e", " ">>,
     <<"p", "e", "a", "n", "u", "t", "s", ",", " ", "s", "h", "e", "l", "l", "f", "i", "s", "h">>, <<
       "p", "e", "a", "n", "u", "t", "s", ",", ",", "s", "h", "e", "l", "l", "f", "i", "s", "h">>, <<
       "p", "e", "a", "n", "u", "t", "s", ",", "a">>, <<
       "d", "u", "s", "t">>, <<
       ",">>}

\* validation = self._validate_response(current_question, response)
ValidateAnswer ==
    /\ valid = <<>>
    /\ valid' = <<validate_response(Questions[question], answer)>>
    /\ UNCHANGED <<core, regs, erased, advice, profile, verdict, earlier, disclaimed,
                   question, answer, saved, services, ack, job, replied>>

\* success = await medical_agent.process_onboarding_response(...), reached
\* only behind a valid answer: the update built from the same raw answer
SaveAnswer ==
    /\ valid = <<TRUE>>
    /\ saved = <<>>
    /\ saved' = <<update_data(Questions[question].field_name, answer)>>
    /\ UNCHANGED <<core, regs, erased, advice, profile, verdict, earlier, disclaimed,
                   question, answer, valid, services, ack, job, replied>>

(***************************************************************************)
(* The webhook of api/main.py and the background task of one delivery,     *)
(* with every awaited collaborator call as a step of its own: the call is  *)
(* pending until the collaborator responds.                                *)
(***************************************************************************)
\* text queries a sender may type
QueryTexts ==
    {<<"a", " ", "H", "e", "a", "d", "a", "c", "h", "e", " ", "a", "n", "d", " ", "f", "e", "v",
      "e", "r">>, <<
      "f", "e", "v", "e", "r", ",", " ", "c", "o", "u", "g", "h">>, <<
      "S", "t", "o", "m", "a", "c", "h", " ", "p", "a", "i", "n">>, <<
      "m", "y", " ", "k", "n", "e", "e", " ", "h", "u", "r", "t", "s">>,
     <<"C", "O", "L", "D">>, <<"w", "h", "a", "t", " ", "i", "s", " ", "d", "i", "a", "b", "e",
       "t", "e", "s">>}

\* error texts of the vision collaborator: vision_agent.py, lines 92 and 266 (str(e))
ErrorTexts == {<<"F", "a", "i", "l", "e", "d", " ", "t", "o", " ", "p", "r", "o", "c", "e", "s",
  "s", " ", "i", "m", "a", "g", "e">>, <<
  "C", "o", "n", "n", "e", "c", "t", "i", "o", "n", " ", "e", "r", "r", "o", "r", ".">>}

NoResponse == [tag |-> "pending", text |-> <<>>]

IdleJob ==
    [pc |-> "idle", kind |-> "", query |-> <<>>, english |-> <<>>, lang |-> "",
     index |-> FALSE, vision |-> FALSE, calls |-> <<>>,
     out |-> [kind |-> "", arg |-> <<>>], resp |-> NoResponse]

\* await <collaborator call>: the call is made and its response is pending
Await(j, call) == [j EXCEPT !.pc = call, !.calls = Append(@, call), !.resp = NoResponse]

\* the handler returned its text; process_whatsapp_message, lines 871-883:
\* send_message
Produce(j, kind, arg) ==
    [Await(j, "send_message") EXCEPT !.out = [kind |-> kind, arg |-> arg]]

\* process_health_query_english, lines 93-173: the canned response that the
\* lower-cased query selects, "none" for the else branch
canned(query) ==
    LET query_lower == Lower(query) IN
    IF Contains(query_lower, <<"h", "e", "a", "d", "a", "c", "h", "e">>) THEN "headache"
    ELSE IF Contains(query_lower, <<"f", "e", "v", "e", "r">>) THEN "fever"
    ELSE IF \E word \in {<<"c", "o", "l", "d">>, <<"c", "o", "u", "g", "h">>} : Contains(query_lower, word) THEN "cold_cough"
    ELSE IF \E word \in {<<"s", "t", "o", "m", "a", "c", "h">>, <<"n", "a", "u", "s", "e", "a">>, <<
      "v", "o", "m", "i", "t">>} : Contains(query_lower, word)
         THEN "stomach"
    ELSE IF /\ \E word \in {<<"p", "a", "i", "n">>, <<"h", "u", "r", "t">>, <<"a", "c", "h", "e">>} : Contains(query_lower, word)
            /\ ~Contains(query_lower, <<"h", "e", "a", "d", "a", "c", "h", "e">>)
         THEN "pain"
    ELSE "none"

\* process_health_query_english, lines 93-173, after the retrieval attempt
Keywords(j) ==
    IF canned(j.english) # "none" THEN Produce(j, canned(j.english), <<>>)
    ELSE Await(j, "generate_medical_answer_english")

\* process_health_query_english, lines 82-90: retrieval is tried first when
\* the Pinecone index is set
Answer(j) ==
    IF j.index THEN Await(j, "search_user_documents") ELSE Keywords(j)

\* what the pending call may respond with
Outcomes(j) ==
    CASE j.pc = "get_user_by_id" ->
            {[tag |-> t, text |-> <<>>] : t \in {"complete", "incomplete", "raise"}}
      [] j.pc = "detect_language" ->
            {[tag |-> t, text |-> <<>>] : t \in {"en", "other", "raise"}}
      [] j.pc = "translate_to_english" ->
            {[tag |-> "ok", text |-> q] : q \in QueryTexts}
              \cup {[tag |-> "raise", text |-> <<>>]}
      [] j.pc = "search_user_documents" ->
            {[tag |-> t, text |-> <<>>] : t \in {"hits", "none"}}
      [] j.pc \in {"generate_rag_answer", "generate_medical_answer_english",
                   "translate_from_english"} ->
            {[tag |-> t, text |-> <<>>] : t \in {"ok", "raise"}}
      [] j.pc = "download_media" ->
            {[tag |-> t, text |-> <<>>] : t \in {"path", "none"}}
      [] j.pc = "analyze_skin_condition" ->
            {[tag |-> "ok", text |-> <<>>]}
              \cup {[tag |-> "error", text |-> e] : e \in ErrorTexts}
      [] j.pc = "send_message" ->
            {[tag |-> t, text |-> <<>>] : t \in {"ok", "fail"}}
      [] OTHER -> {}

\* the code that runs from the response of the pending call to the next
\* awaited call
Continue(j) ==
    LET r == j.resp IN
    CASE j.pc = "get_user_by_id" ->
            \* process_whatsapp_message, lines 814-868 and 885-899
            IF r.tag = "raise" THEN Produce(j, "apology", <<>>)
            ELSE IF r.tag = "incomplete" THEN Produce(j, "onboarding", <<>>)
            ELSE IF j.kind = "text" THEN Await(j, "detect_language")
            \* process_image_analysis, lines 303-311
            ELSE IF ~j.vision THEN Produce(j, "image_unavailable", <<>>)
            ELSE Await(j, "download_media")
      [] j.pc = "detect_language" ->
            \* language_processor.py, lines 35-67 and 70-72
            IF r.tag = "other"
            THEN Await([j EXCEPT !.lang = "other"], "translate_to_english")
            ELSE Answer([j EXCEPT !.lang = "en", !.english = j.query])
      [] j.pc = "translate_to_english" ->
            \* language_processor.py, lines 86-99
            Answer([j EXCEPT !.english = IF r.tag = "ok" THEN r.text ELSE j.query])
      [] j.pc = "search_user_documents" ->
            \* process_health_query_english, lines 86-88
            IF r.tag = "hits" THEN Await(j, "generate_rag_answer") ELSE Keywords(j)
      [] j.pc = "generate_rag_answer" ->
            \* process_health_query_english, lines 88-90
            IF r.tag = "ok" THEN Await([j EXCEPT !.out = [kind |-> "rag", arg |-> <<>>]],
                                       "translate_from_english")
            ELSE Keywords(j)
      [] j.pc = "generate_medical_answer_english" ->
            \* process_health_query_english, lines 175-187
            Await([j EXCEPT !.out = [kind |-> IF r.tag = "ok" THEN "generated"
                                              ELSE "guidance",
                                     arg |-> <<>>]],
                  "translate_from_english")
      [] j.pc = "translate_from_english" ->
            \* process_basic_health_query, lines 66-68
            Produce(j, j.out.kind, j.out.arg)
      [] j.pc = "download_media" ->
            \* process_image_analysis, lines 311-319
            IF r.tag \in {"none", "timeout"} THEN Produce(j, "download_failed", <<>>)
            ELSE Await(j, "analyze_skin_condition")
      [] j.pc = "analyze_skin_condition" ->
            \* process_image_analysis, lines 319-327
            IF r.tag = "error" THEN Produce(j, "analysis_error", r.text)
            ELSE Produce(j, "image_analysis", <<>>)
      [] OTHER -> IdleJob

\* lifespan, lines 523-591: the service globals are set
Startup ==
    /\ ~services
    /\ services' = TRUE
    /\ UNCHANGED <<core, regs, erased, advice, profile, verdict, earlier, disclaimed,
                   asked, ack, job, replied>>

\* whatsapp_webhook (and webhook_root): Depends(get_services), then the form
\* is parsed and the background task added
Webhook ==
    \E parsed \in {"message", "no_sender", "raises"}, kind \in {"text", "image"},
       query \in QueryTexts, index \in BOOLEAN, vision \in BOOLEAN :
        /\ job.pc = "idle"
        /\ ack' = IF ~services
                  THEN <<[status |-> 503, body |-> "Services not initialized"]>>
                  ELSE IF parsed = "no_sender" THEN <<[status |-> 200, body |-> "OK"]>>
                  ELSE <<[status |-> 200, body |-> ""]>>
        /\ job' = IF services /\ parsed = "message"
                  THEN Await([IdleJob EXCEPT !.kind = kind, !.index = index,
                                             !.vision = vision,
                                             !.query = IF kind = "text" THEN query ELSE <<>>],
                             "get_user_by_id")
                  ELSE job
        /\ replied' = <<>>
        /\ UNCHANGED <<core, regs, erased, advice, profile, verdict, earlier, disclaimed,
                       asked, services>>

\* the collaborator of the pending call responds
Respond ==
    /\ job.resp = NoResponse
    /\ \E r \in Outcomes(job) : job' = [job EXCEPT !.resp = r]
    /\ UNCHANGED <<core, regs, erased, advice, profile, verdict, earlier, disclaimed,
                   asked, services, ack, replied>>

\* twilio_service.download_media, lines 87-91 and 129-131: the only call of
\* the task with a timeout; its expiry is a RequestError and None is returned
Expire ==
    /\ job.pc = "download_media"
    /\ job.resp = NoResponse
    /\ job' = [job EXCEPT !.resp = [tag |-> "timeout", text |-> <<>>]]
    /\ UNCHANGED <<core, regs, erased, advice, profile, verdict, earlier, disclaimed,
                   asked, services, ack, replied>>

\* the event loop resumes the task with the response
Resume ==
    /\ job.pc # "idle"
    /\ job.resp # NoResponse
    /\ job' = Continue(job)
    /\ replied' = IF job.pc = "send_message"
                THEN <<[kind |-> job.out.kind, arg |-> job.out.arg, media |-> job.kind,
                        about |-> job.english, calls |-> job.calls]>>
                ELSE replied
    /\ UNCHANGED <<core, regs, erased, advice, profile, verdict, earlier, disclaimed,
                   asked, services, ack>>

\* the stores, the services and the router after construction
InitCore ==
    /\ users = [u \in Users |-> <<>>]
    /\ onboarding_states = [u \in Users |-> 0]
    /\ heap = [o \in ObjIds |-> Free]
    /\ tasks = [i \in Slots |-> Idle]
    /\ sent = NothingSent
    /\ seq = [u \in Users |-> TRUE]
    /\ consumed = [u \in Users |-> <<>>]
    /\ finalAnswer = [u \in Users |-> <<>>]
    /\ overlaps = 0
    /\ ended = ""
    /\ twilio_up = TRUE
    /\ active_sessions = [u \in Users |-> NoSession]
    /\ chat_records = [u \in Users |-> <<>>]
    /\ now = 0
    /\ minted = 0
    /\ looked = NotLooked
    /\ services = FALSE
    /\ ack = <<>>
    /\ job = IdleJob
    /\ replied = <<>>

Init ==
    /\ InitCore
    /\ erased = NotErased
    /\ advice = <<>>
    /\ profile = NoProfile
    /\ verdict = <<>>
    /\ earlier = <<>>
    /\ disclaimed = <<>>
    /\ question = 0
    /\ answer = <<>>
    /\ valid = <<>>
    /\ saved = <<>>

\* the validator before its first call, for any reply and any profile
InitSafety ==
    /\ InitCore
    /\ erased = NotErased
    /\ advice \in AdviceTexts
    /\ profile \in ProfileInputs
    /\ verdict = <<>>
    /\ earlier = <<>>
    /\ disclaimed = <<>>
    /\ question = 0
    /\ answer = <<>>
    /\ valid = <<>>
    /\ saved = <<>>

\* the onboarding service before it validates any answer to any question
InitAnswers ==
    /\ InitCore
    /\ erased = NotErased
    /\ advice = <<>>
    /\ profile = NoProfile
    /\ verdict = <<>>
    /\ earlier = <<>>
    /\ disclaimed = <<>>
    /\ question \in 1..NumQuestions
    /\ answer \in AnswerTexts
    /\ valid = <<>>
    /\ saved = <<>>

\* the router of api/main.py under concurrent deliveries
Next ==
    \/ Deliver
    \/ Redeliver
    \/ \E i \in Slots : StartGet(i)
    \/ \E i \in Slots : StartCreate(i)
    \/ \E i \in Slots : StartInit(i)
    \/ \E i \in Slots : ProcessGet(i)
    \/ \E i \in Slots : AgentGet(i)
    \/ \E i \in Slots : AgentUpdate(i)
    \/ \E i \in Slots : CheckGet(i)
    \/ \E i \in Slots : CheckUpdate(i)
    \/ \E i \in Slots : CompleteUpdate(i)
    \/ \E i \in Slots : CompleteGet(i)
    \/ \E i \in Slots : HandlerDone(i)

Spec == Init /\ [][Next]_vars

\* the onboarding service called directly, call after call
NextSvc ==
    \/ CallStart
    \/ CallProcess
    \/ CallReset
    \/ \E i \in Slots : ResetUpdate(i)
    \/ \E i \in Slots : StartGet(i)
    \/ \E i \in Slots : StartCreate(i)
    \/ \E i \in Slots : StartInit(i)
    \/ \E i \in Slots : ProcessGet(i)
    \/ \E i \in Slots : AgentGet(i)
    \/ \E i \in Slots : AgentUpdate(i)
    \/ \E i \in Slots : CheckGet(i)
    \/ \E i \in Slots : CheckUpdate(i)
    \/ \E i \in Slots : CompleteUpdate(i)
    \/ \E i \in Slots : CompleteGet(i)

SpecSvc == Init /\ [][NextSvc]_vars

\* the pipeline of QueryProcessor under concurrent deliveries
NextQP ==
    \/ DeliverQP
    \/ \E i \in Slots : ProgressGet(i)
    \/ \E i \in Slots : StartGet(i)
    \/ \E i \in Slots : StartCreate(i)
    \/ \E i \in Slots : StartInit(i)
    \/ \E i \in Slots : AgentGet(i)
    \/ \E i \in Slots : AgentUpdate(i)
    \/ \E i \in Slots : CheckGet(i)
    \/ \E i \in Slots : CheckUpdate(i)
    \/ \E i \in Slots : CompleteUpdate(i)
    \/ \E i \in Slots : CompleteGet(i)
    \/ \E i \in Slots : HandlerDone(i)

SpecQP == Init /\ [][NextQP]_vars

\* the router of api/main.py, one event at a time, with faults
NextFault ==
    \/ DeliverSeq
    \/ DeliverRaises
    \/ TwilioFlips
    \/ \E i \in Slots : Raises(i)
    \/ \E i \in Slots : StartGet(i)
    \/ \E i \in Slots : StartCreate(i)
    \/ \E i \in Slots : StartInit(i)
    \/ \E i \in Slots : AgentGet(i)
    \/ \E i \in Slots : AgentUpdate(i)
    \/ \E i \in Slots : CheckGet(i)
    \/ \E i \in Slots : CheckUpdate(i)
    \/ \E i \in Slots : CompleteUpdate(i)
    \/ \E i \in Slots : CompleteGet(i)
    \/ \E i \in Slots : HandlerDone(i)

SpecFault == Init /\ [][NextFault]_vars

\* router, onboarding service and session registry with two identities,
\* one event at a time
NextPair ==
    \/ DeliverPair
    \/ SessionLookup
    \/ \E i \in Slots : StartGet(i)
    \/ \E i \in Slots : StartCreate(i)
    \/ \E i \in Slots : StartInit(i)
    \/ \E i \in Slots : AgentGet(i)
    \/ \E i \in Slots : AgentUpdate(i)
    \/ \E i \in Slots : CheckGet(i)
    \/ \E i \in Slots : CheckUpdate(i)
    \/ \E i \in Slots : HandlerDone(i)

SpecPair == Init /\ [][NextPair]_vars

\* the session registry of QueryProcessor on its own
NextSession ==
    \/ SessionLookup
    \/ ClearSession
    \/ Tick

SpecSession == Init /\ [][NextSession]_vars

\* the router of api/main.py, one event at a time, and the erase endpoint
NextErase ==
    \/ DeliverSeq
    \/ EraseUser
    \/ \E i \in Slots : StartGet(i)
    \/ \E i \in Slots : StartCreate(i)
    \/ \E i \in Slots : StartInit(i)
    \/ \E i \in Slots : AgentGet(i)
    \/ \E i \in Slots : AgentUpdate(i)
    \/ \E i \in Slots : CheckGet(i)
    \/ \E i \in Slots : CheckUpdate(i)
    \/ \E i \in Slots : HandlerDone(i)

SpecErase == Init /\ [][NextErase]_vars

\* the safety validator called reply after reply
NextSafety ==
    \/ Validate
    \/ AddDisclaimer
    \/ NextAdvice
    \/ NextProfile

SpecSafety == InitSafety /\ [][NextSafety]_vars

\* an answer is validated and, when valid, handed to the agent
NextAnswers ==
    \/ ValidateAnswer
    \/ SaveAnswer

SpecAnswers == InitAnswers /\ [][NextAnswers]_vars

\* deliveries to the webhook, one background task at a time
NextHook ==
    \/ Startup
    \/ Webhook
    \/ Respond
    \/ Expire
    \/ Resume

SpecHook == Init /\ [][NextHook]_vars

\* the event loop is fair to a task whose call has responded, and a timer
\* that was set expires; nothing makes a collaborator respond
LiveHook == SpecHook /\ WF_vars(Resume) /\ WF_vars(Expire)

(***************************************************************************)
(* Properties.                                                             *)
(***************************************************************************)
HasSession(u) == onboarding_states[u] # 0

\* the session that onboarding_states holds for u
Session(u) == IF HasSession(u) THEN heap[onboarding_states[u]] ELSE [step |-> -1, completed_fields |-> <<>>]

Sessions == [u \in Users |-> Session(u)]

\* C1: two events of one identity are never in processing at the same
\* time: an event's profile fetch happens only when no other event of that
\* identity is between its fetch and its reply.
C1_Serialized ==
    \A i, j \in Slots :
        (i # j /\ InFlight(i) /\ InFlight(j)) => tasks[i].user # tasks[j].user

C3_IdempotentCompletion ==
    /\ sent.dup => sent.kind = "already_complete"
    /\ \A i \in Slots :
          tasks[i].dup =>
              /\ ~tasks[i].validated
              /\ ~tasks[i].completing
              /\ tasks[i].pc \notin {"mda_get", "mda_update", "chk_get", "chk_update",
                                   "co_update", "co_get", "handler"}

\* C4: after any sequence of service calls, is_profile_complete of every
\* stored profile is true exactly when the six required fields are set.
C4_CompleteIffRequired ==
    ~Busy =>
        \A u \in Users :
            \A k \in 1..Len(users[u]) :
                users[u][k].is_profile_complete <=> check_profile_completeness(users[u][k])

\* C5: a content handler runs only for an event whose profile was complete
\* when it was routed, and an event routed with an incomplete profile only
\* yields an onboarding reply or the finish-your-profile message.
C5_Gate ==
    /\ \A i \in Slots : tasks[i].pc = "handler" => tasks[i].gate
    /\ (sent.kind # "none" /\ ~sent.gate) =>
          sent.kind \in {"welcome", "welcome_back", "already_complete", "invalid",
                         "save_error", "ack", "completion", "finish_profile"}

C5_Witness ==
    /\ sent.kind = "finish_profile" /\ ~sent.gate
    /\ Exists(sent.to) /\ HasSession(sent.to)

\* C6: for an identity whose events are processed one after another, the
\* welcome prompts for the name, the answers are consumed in the canonical
\* order, the completion message answers the ninth accepted answer and no
\* earlier one, and no event reaches a content handler before that.
C6_NineThenHandlers ==
    \A u \in Users :
        seq[u] =>
            /\ Len(consumed[u]) <= NumQuestions
            /\ consumed[u] = SubSeq(FieldOrder, 1, Len(consumed[u]))
            /\ (sent.to = u /\ sent.kind = "welcome") => sent.q = 0
            /\ (sent.to = u /\ sent.kind = "completion") => consumed[u] = FieldOrder
            /\ \A i \in Slots :
                  (tasks[i].user = u /\ tasks[i].pc = "handler") => consumed[u] = FieldOrder

\* C7: a step that replies with a validation error leaves every profile
\* and every session (step index, completed fields) as they were, and the
\* reply prompts for the question the session is at.
C7_RejectedAnswerKeepsState ==
    [][sent'.kind = "invalid" =>
          /\ users' = users
          /\ Sessions' = Sessions
          /\ HasSession(sent'.to)
          /\ sent'.q = Session(sent'.to).step]_vars

C7_Witness ==
    /\ sent.kind = "invalid"
    /\ Session(sent.to).step = 1
    /\ Len(get_user_by_id(sent.to).name) > 0

\* C8: an event with an attachment from an identity whose profile is not
\* complete gets the finish-your-profile message, its body is not taken as
\* an onboarding answer, and the step that answers it changes no profile
\* and no session.
C8_AttachmentNotConsumed ==
    /\ [](/\ (sent.media # "none" /\ ~sent.gate) => sent.kind = "finish_profile"
          /\ \A i \in Slots : (tasks[i].media # "none" /\ ~tasks[i].gate) => ~InFlight(i))
    /\ [][sent'.kind = "finish_profile" =>
             (users' = users /\ Sessions' = Sessions)]_vars

\* C9: when no event is in processing, an identity has an onboarding
\* session exactly when it has a profile that is not complete.
C9_SessionIffIncomplete ==
    ~Busy =>
        \A u \in Users : HasSession(u) <=> (Exists(u) /\ ~IsComplete(u))

\* C10: while an identity has a session, its step index never decreases.
C10_StepMonotone ==
    [][\A u \in Users :
          (HasSession(u) /\ HasSession(u)') => Session(u)'.step >= Session(u).step]_vars

\* C11: when the onboarding service returns with is_onboarding_complete =
\* true (the completion message or the "already onboarded" message), the
\* stored profile is flagged complete and the identity has no session.
C11_CompletionAtomic ==
    sent.kind \in {"completion", "setup_complete", "already_complete"} =>
        (IsComplete(sent.to) /\ ~HasSession(sent.to))

\* C12: for an identity whose profile is complete, start_onboarding, and
\* process_onboarding_response called without a session, return at once
\* with the "already onboarded" message, and that step changes no profile
\* and no session.
C12_AlreadyOnboarded ==
    [][/\ \A i \in Slots :
             (/\ tasks[i].pc \in {"so_get", "por_get"}
              /\ IsComplete(tasks[i].user)
              /\ tasks'[i] # tasks[i])
             => (sent'.kind \in {"welcome_back", "already_complete"}
                 /\ sent'.to = tasks[i].user)
       /\ sent'.kind \in {"welcome_back", "already_complete"} =>
             (users' = users /\ onboarding_states' = onboarding_states
              /\ Sessions' = Sessions)]_vars

C12_Witness ==
    /\ sent.kind = "already_complete"
    /\ IsComplete(sent.to) /\ ~HasSession(sent.to)

\* C13: when the processing of an accepted event ends, exactly one message
\* has been handed to the messaging API for its sender in that processing.
C13_OneReplyPerEvent ==
    ended # "" => (sent.kind # "none" /\ sent.to = ended)

\* C14: every message that is sent has been passed through the safety
\* rule engine before the send.
C14_SafetyChecked ==
    sent.kind # "none" => sent.checked

\* the replies that an except branch produces
FaultReplies ==
    {"apology", "start_error", "process_error", "setup_complete", "fallback", "save_error"}

\* C15: no fault leaves process_whatsapp_message: no task ends raised, a
\* fault at the router turns into the apology to the sender and changes
\* nothing else, and the event is over after the reply to a fault whether
\* or not the messaging API took the message.
C15_FaultsCaught ==
    /\ [](/\ \A i \in Slots : tasks[i].pc # "raised"
          /\ sent.kind \in FaultReplies => ended = sent.to)
    /\ [][sent'.kind = "apology" =>
             (/\ tasks' = tasks /\ users' = users
              /\ onboarding_states' = onboarding_states /\ heap' = heap)]_vars

C15_Witness ==
    /\ sent.kind = "apology" /\ ~sent.delivered
    /\ ended = sent.to /\ ~Busy
    /\ HasSession(sent.to) /\ Session(sent.to).step = 1

\* the class that the classifier is to give an attachment's content type
ExpectedClass(media) ==
    IF media = "none" THEN "text"
    ELSE IF StartsWith(ContentTypeChars(media), Str.image_slash) THEN "image"
    ELSE IF media \in DocumentTypes THEN "document"
    ELSE "unsupported"

\* C16: a content handler runs for an event only as the class of its
\* attachment says (none: text, image/...: image, the three document
\* types: document), and an event of a complete profile with any other
\* attachment gets the unsupported-media reply and no handler.
C16_Classification ==
    /\ \A i \in Slots :
          tasks[i].pc = "handler" => tasks[i].handler = ExpectedClass(tasks[i].media)
    /\ (sent.kind # "none" /\ sent.gate /\ ExpectedClass(sent.media) = "unsupported")
          => sent.kind = "unsupported"

\* C17: the step that ends the processing of an event appends exactly one
\* chat record for its sender, under the sender's session token, and
\* leaves the records stored before as they were.
C17_OneRecordPerEvent ==
    [][ended' # "" =>
          LET u == ended' IN
          /\ Len(chat_records'[u]) = Len(chat_records[u]) + 1
          /\ SubSeq(chat_records'[u], 1, Len(chat_records[u])) = chat_records[u]
          /\ chat_records'[u][Len(chat_records'[u])] = active_sessions'[u].session_id
          /\ active_sessions'[u].session_id # 0]_vars

\* the idle lifetime of a session token, in ticks
IdleLifetime == 1

\* C18: a session lookup returns a token; it is the identity's previous
\* token when that token was active within the idle lifetime, and a new
\* token, different from the previous one, when there was none or the
\* previous one has been idle for longer.
C18_SessionToken ==
    looked.to # "" =>
        /\ looked.token # 0
        /\ (looked.prev # 0 /\ looked.idle <= IdleLifetime) => looked.token = looked.prev
        /\ (looked.prev = 0 \/ looked.idle > IdleLifetime) => looked.token # looked.prev

\* what the program keeps for identity u
Local(u) == <<users[u], onboarding_states[u], Session(u), active_sessions[u], chat_records[u]>>

C20_OneProfilePerIdentity ==
    \A u \in Users : Len(users[u]) <= 1

\* C21: a call of the erase endpoint for an identity succeeds, whether the
\* identity exists or not, and leaves no profile, no chat record and no
\* onboarding session of that identity behind.
C21_EraseRemovesAll ==
    [][erased' # erased =>
         /\ erased'.ok
         /\ Len(users'[erased'.to]) = 0
         /\ Len(chat_records'[erased'.to]) = 0
         /\ onboarding_states'[erased'.to] = 0]_vars

\* the verdict of the last call, for a text that made no sub-check fault
Checked == verdict # <<>> /\ ~Faults(advice, profile)

C23_WarningIffTriggered ==
    verdict # <<>> =>
        LET v == verdict[1]
        IN  (v.warning_message # None)
                <=> (\/ v.has_emergency_symptoms
                     \/ v.requires_immediate_attention
                     \/ ~v.age_appropriate
                     \/ Len(v.contraindications) > 0)

\* C23: in every verdict the warning is non-null exactly when a flag is
\* triggered, a contraindication is listed, or a sub-check faulted and the
\* verdict is the conservative one.
C23_WarningIffTriggeredOrFault ==
    verdict # <<>> =>
        LET v == verdict[1]
        IN  (v.warning_message # None)
                <=> (\/ v.has_emergency_symptoms
                     \/ v.requires_immediate_attention
                     \/ ~v.age_appropriate
                     \/ Len(v.contraindications) > 0
                     \/ Faults(advice, profile))

\* a verdict whose only trigger is its list of contraindications carries
\* a warning
C23_Witness ==
    /\ Checked
    /\ ~verdict[1].has_emergency_symptoms
    /\ verdict[1].age_appropriate
    /\ Len(verdict[1].contraindications) > 0
    /\ verdict[1].warning_message # None

\* C24: a call whose sub-check faults returns the conservative verdict: no
\* flag, age_appropriate true, no contraindication and the fixed warning.
C24_ConservativeOnFault ==
    (verdict # <<>> /\ Faults(advice, profile)) =>
        /\ ~verdict[1].has_emergency_symptoms
        /\ ~verdict[1].requires_immediate_attention
        /\ verdict[1].age_appropriate
        /\ verdict[1].contraindications = <<>>
        /\ verdict[1].warning_message = Txt.unable

\* a call faulted and returned a verdict
C24_Witness ==
    /\ verdict # <<>>
    /\ Faults(advice, profile)
    /\ verdict[1].warning_message # None

C26_ElderlyAdvisory ==
    (Checked /\ profile.present /\ profile.age # 0 /\ profile.age > 65
     /\ \E w \in Txt.elderly_warnings : Contains(Lower(advice), w)) =>
        /\ verdict[1].age_appropriate
        /\ \/ InList(Txt.elderly_consideration, verdict[1].contraindications)
           \/ /\ verdict[1].warning_message # None
              /\ Contains(verdict[1].warning_message, Txt.elderly_consideration)

\* C27: for every pair of the interaction table with one member among the
\* lower-cased current medications and the other in the lower-cased text, in
\* either direction, the hazard is in the contraindications; the generic
\* check-with-doctor entry is there when the profile has a medication and
\* the text mentions "medication", "drug" or "pill".
C27_Interactions ==
    (Checked /\ profile.present) =>
        LET text == Lower(advice)
            meds == LowerAll(profile.current_medications)
            v == verdict[1]
        IN  /\ \A k \in 1..Len(medication_interactions) :
                  LET r == medication_interactions[k]
                  IN  ((InList(r.med1, meds) /\ Contains(text, r.med2))
                       \/ (InList(r.med2, meds) /\ Contains(text, r.med1))) =>
                          InList(Txt.interaction_warning \o r.warning, v.contraindications)
            /\ (Len(meds) > 0 /\ \E m \in Txt.medication_indicators : Contains(text, m)) =>
                  InList(Txt.check_with_doctor, v.contraindications)

\* the second member of a pair is taken and the first is in the text
C27_Witness ==
    /\ Checked
    /\ profile.present
    /\ \E k \in 1..Len(medication_interactions) :
          /\ InList(medication_interactions[k].med2, LowerAll(profile.current_medications))
          /\ Contains(Lower(advice), medication_interactions[k].med1)
          /\ InList(Txt.interaction_warning \o medication_interactions[k].warning,
                    verdict[1].contraindications)

\* C28: an allergy of the profile that appears in the text gives an ALLERGY
\* ALERT entry, a related substance of the cross-reactivity table in the text
\* gives a cross-reaction caution, and a profile without allergies gives no
\* allergy entry.
C28_Allergies ==
    (Checked /\ profile.present) =>
        LET text == Lower(advice)
            v == verdict[1]
        IN  /\ \A i \in 1..Len(profile.allergies) :
                  LET a == profile.allergies[i]
                  IN  /\ Contains(text, Lower(a)) =>
                            InList(Txt.allergy_alert \o a, v.contraindications)
                      /\ \A k \in 1..Len(allergy_related) :
                            \A j \in 1..Len(allergy_related[k].items) :
                                (allergy_related[k].allergy = Lower(a)
                                 /\ Contains(text, allergy_related[k].items[j])) =>
                                    InList(Txt.caution_upper \o allergy_related[k].items[j]
                                           \o Txt.may_cross_react \o a \o Txt.allergy_suffix,
                                           v.contraindications)
            /\ profile.allergies = <<>> =>
                  \A n \in 1..Len(v.contraindications) :
                      /\ ~StartsWith(v.contraindications[n], Txt.allergy_alert)
                      /\ ~StartsWith(v.contraindications[n], Txt.caution_upper)

\* a related substance was advised to a sender allergic to penicillin
C28_Witness ==
    /\ Checked
    /\ profile.present
    /\ \E i \in 1..Len(profile.allergies) :
          /\ ~Contains(Lower(advice), Lower(profile.allergies[i]))
          /\ \E n \in 1..Len(verdict[1].contraindications) :
                /\ StartsWith(verdict[1].contraindications[n], Txt.caution_upper)
                /\ Contains(verdict[1].contraindications[n], profile.allergies[i])

Count(text, sub) ==
    Cardinality({i \in 0..(Len(text) - Len(sub)) : SubSeq(text, i + 1, i + Len(sub)) = sub})

\* C30: a reply sent to a sender with a complete profile contains the
\* standard disclaimer exactly once (checked on the reply whose text is
\* fixed, the answer to an unsupported attachment).
C30_DisclaimerOnce ==
    (sent.to # "" /\ sent.gate /\ sent.kind = "unsupported") =>
        Count(Txt.unsupported_media, Txt.standard_disclaimer) = 1

\* C31: the field validators accept exactly these answers: an age that is
\* an integer from 1 to 120 ("0" and "121" are rejected, "1" and "120"
\* accepted); a gender and a medication preference that is a member of the
\* option list in any case, and the stored value is the lower-case member;
\* a name of at least 2 characters without a digit; a district and a state
\* of at least 2 characters
C31_FieldValidators ==
    valid # <<>> =>
        LET ok == valid[1]
            stored == saved # <<>> /\ saved[1].ok
        IN  /\ Questions[question].field_name = "age" =>
                  /\ ok <=> (ParseInt(Strip(answer)).ok /\ ParseInt(Strip(answer)).val \in 1..120)
                  /\ Strip(answer) \in {<<"0">>, <<"1", "2", "1">>} => ~ok
                  /\ Strip(answer) \in {<<"1">>, <<"1", "2", "0">>} => ok
            /\ Questions[question].field_name = "gender" =>
                  /\ ok <=> Lower(Strip(answer)) \in {<<"m", "a", "l", "e">>, <<"f", "e", "m", "a",
                    "l", "e">>, <<
                    "o", "t", "h", "e", "r">>}
                  /\ stored => saved[1].val = <<Lower(Strip(answer))>>
            /\ Questions[question].field_name = "medication_preference" =>
                  /\ ok <=> Lower(Strip(answer)) \in {<<"e", "n", "g", "l", "i", "s", "h">>, <<"a",
                    "y", "u", "r", "v", "e", "d", "i", "c">>, <<
                    "h", "o", "m", "e", "_", "r", "e", "m", "e", "d", "i", "e", "s">>}
                  /\ stored => saved[1].val = <<Lower(Strip(answer))>>
            /\ Questions[question].field_name = "name" =>
                  (ok <=> /\ Len(Strip(answer)) >= 2
                          /\ \A i \in 1..Len(Strip(answer)) : Strip(answer)[i] \notin Digits)
            /\ Questions[question].field_name \in {"district", "state"} => (ok <=> Len(Strip(answer)) >= 2)

\* a gender typed in capitals was accepted and stored in lower case
C31_Witness ==
    /\ Questions[question].field_name = "gender"
    /\ answer = <<"M", "a", "l", "e">>
    /\ valid = <<TRUE>>
    /\ saved = <<[ok |-> TRUE, val |-> <<<<"m", "a", "l", "e">>>>]>>

\* C32: for the three list questions the answer "none", in any case,
\* stores the empty list; any other answer is accepted only when every
\* comma-separated item, trimmed, has at least 2 characters, and the
\* stored list holds exactly those trimmed items; an empty answer and an
\* answer with an empty item are rejected and store nothing
C32_ListAnswers ==
    (valid # <<>> /\ Questions[question].field_name \in ListFields) =>
        LET ok == valid[1]
            parts == Split(Strip(answer))
            items == [i \in 1..Len(parts) |-> Strip(parts[i])]
        IN  /\ Lower(answer) = <<"n", "o", "n", "e">> =>
                  /\ ok
                  /\ saved # <<>> => saved[1] = [ok |-> TRUE, val |-> <<>>]
            /\ Lower(Strip(answer)) # <<"n", "o", "n", "e">> =>
                  /\ ok <=> \A i \in 1..Len(items) : Len(items[i]) >= 2
                  /\ saved # <<>> => saved[1] = [ok |-> TRUE, val |-> items]
            /\ ~ok => saved = <<>>

\* C38: every answer the validator accepts is accepted by the persistence
\* step as well, surrounding blanks included: the agent builds an update
\* from it and does not return False
C38_AcceptedIsSaved ==
    saved # <<>> => (valid = <<TRUE>> /\ saved[1].ok)

\* C36: once the router has processed the first event of a new identity,
\* a profile record exists for it with every required field null, whatever
\* the event carried, an attachment included
C36_ProfileAfterFirstEvent ==
    ended # "" =>
        /\ Exists(ended)
        /\ sent.kind \in {"welcome", "finish_profile"} /\ ~HasSession(ended) =>
              \A f \in RequiredFields : get_user_by_id(ended)[f] = <<>>

\* C39: after reset_onboarding the profile stays incomplete until the nine
\* questions have been answered again: the answer to the first question of
\* a session never turns is_profile_complete on
C39_ResetStaysIncomplete ==
    [][\A i \in Slots, u \in Users :
          (tasks[i].user = u /\ tasks[i].pc = "chk_update" /\ tasks[i].cur = 0) =>
              (IsComplete(u)' => IsComplete(u))]_vars

\* C40: for every active onboarding session, also under concurrent
\* delivery: the step is from 0 to 8 (a session whose step reached 9 is
\* never left stored) and completed_fields is exactly the first step field
\* names, in order and without duplicates
C40_SessionShape ==
    \A u \in Users :
        HasSession(u) =>
            /\ Session(u).step \in 0..(NumQuestions - 1)
            /\ Session(u).completed_fields = SubSeq(FieldOrder, 1, Session(u).step)

\* C33: under fair scheduling the processing of every inbound event
\* eventually terminates, with a reply or the fixed fallback, also when a
\* collaborator never responds: every external call is bounded by a
\* timeout whose expiry is handled as the failure of that call
C33_Terminates == (job.pc # "idle") ~> (job.pc = "idle")

\* C34: the webhook answers every inbound delivery with a success
\* acknowledgement: when parsing succeeds, when the sender is missing, when
\* the handler raises, and when the services are not initialized yet
C34_AlwaysAcknowledged == ack # <<>> => ack[1].status = 200

\* C35: for a text query of a sender with a complete profile the canned
\* keywords are checked before any other source, in the priority headache,
\* fever, cold or cough, stomach or nausea, generic pain, the first match
\* on the lower-cased query wins; a query with a keyword never gets a
\* generated or a retrieval-based answer
C35_KeywordsFirst ==
    (replied # <<>> /\ replied[1].media = "text" /\ Len(replied[1].about) > 0) =>
        LET r == replied[1]
            q == Lower(r.about)
            called == {r.calls[k] : k \in 1..Len(r.calls)}
            expected == IF Contains(q, <<"h", "e", "a", "d", "a", "c", "h", "e">>) THEN "headache"
                        ELSE IF Contains(q, <<"f", "e", "v", "e", "r">>) THEN "fever"
                        ELSE IF Contains(q, <<"c", "o", "l", "d">>) \/ Contains(q, <<"c", "o",
                          "u", "g", "h">>) THEN "cold_cough"
                        ELSE IF Contains(q, <<"s", "t", "o", "m", "a", "c", "h">>) \/ Contains(q, <<
                          "n", "a", "u", "s", "e", "a">>) THEN "stomach"
                        ELSE IF Contains(q, <<"p", "a", "i", "n">>) THEN "pain"
                        ELSE "none"
        IN  expected # "none" =>
               /\ r.kind = expected
               /\ called \cap {"search_user_documents", "generate_rag_answer",
                               "generate_medical_answer_english"} = {}

\* C37: when the image path fails at any stage the reply is one of a fixed
\* set of fallback texts and never contains the error text of a
\* collaborator; the downloaded image is validated for size and extension
\* before the vision collaborator is called
C37_ImageFallbacks ==
    /\ (replied # <<>> /\ replied[1].media = "image" /\ replied[1].kind # "image_analysis") =>
          /\ replied[1].kind \in {"apology", "onboarding", "image_unavailable",
                                  "download_failed", "analysis_failed"}
          /\ replied[1].arg = <<>>
    /\ job.pc = "analyze_skin_condition" =>
          \E k \in 1..Len(job.calls) : job.calls[k] = "validate_file_upload"

====
